---- MODULE Spec2Model ----
(***************************************************************************)
(* Model of the MCP demo repository: the stdio tool server                 *)
(* (subprocess/mcp_server.py), the FastMCP servers                         *)
(* (subprocess-strands/ and local-strands/ mcp_server_strands.py), the     *)
(* direct protocol clients (subprocess/, local/, remote/ mcp_client.py)    *)
(* and the multi-server agent                                              *)
(* (remote-strands-multi/mcp_client_strands.py) with its variant that      *)
(* reads its configuration from a file and the environment                 *)
(* (remote-strands-multi/mcp_client_strands_ext_config.py).                *)
(*                                                                         *)
(* Text is modelled as a sequence of tokens, so that an f-string is the    *)
(* concatenation of its literal parts and its interpolated values.         *)
(***************************************************************************)
EXTENDS Integers, Sequences, FiniteSets, TLC

VARIABLES
    srvState,      \* "unspawned" | "starting" | "running" | "exited"   (server process)
    exitCode,      \* exit status of the server process, -1 while it runs
    exitCause,     \* "none" | "init" | "eof" | "fatal" | "handler" | "interrupt"
    sessionOpen,   \* the client side of the stdio streams is open
    pending,       \* the request the server has read and not yet answered
    lastReq,       \* the request last handled, until the next one is read
    firstList,     \* the first list_tools response of the session
    lastCall,      \* what handling lastReq did (handlers, backend requests, outcome)
    lastResp,      \* the response written for lastReq
    failedSeen,    \* some earlier call_tool on this session failed
    handled,       \* number of requests handled so far
    s3Buckets,     \* backend: bucket names of the account
    s3Body,        \* backend: body of object b1/k1
    ddbItem,       \* backend: item stored in table t1 under k1 = v1
    skind,         \* the server script that runs: "lowlevel" | "fastmcp" | "direct" | "http"
    output,        \* the lines and frames the server process has written, each with its stream
    srvEnv,        \* the environment of the server process
    awsClients,    \* region and profile the backend clients were constructed with
    \* ---- the direct clients (main of subprocess/, local/, remote/ mcp_client.py)
    ckind,         \* which client script runs: "subprocess" | "local" | "remote"
    cphase,        \* "start" | "connected" | "body" | "returned"
    transport,     \* the transport context: "unopened" | "open" | "closed"
    session,       \* the ClientSession context: "unopened" | "open" | "closed"
    initialized,   \* session.initialize() has returned
    ip,            \* index in Program(ckind) of the next request to issue
    inflight,      \* requests issued whose response has not been received
    reqLog,        \* requests issued, each with the session state it was issued in
    responses,     \* responses received, in the order received
    creported,     \* the outer except block has reported an error
    environ,       \* os.environ of the client process
    shown,         \* the AWS configuration the client has displayed
    attempts,      \* number of times main has tried to open the transport
    cerror,        \* the step whose exception reached the outer except, or "none"
    \* ---- MultiMCPAgent (remote-strands-multi/mcp_client_strands.py)
    server_configs,\* self.server_configs: server name -> config
    mcp_clients,   \* self.mcp_clients: the server names it holds a client for, in dict order
    all_tools,     \* self.all_tools
    agent,         \* self.agent
    msess,         \* per server: the MCPClient session is "closed" or "open"
    mop,           \* the method that is running: "none" | "discover" | "query"
    mstep,         \* position inside the running method's loop body
    midx,          \* loop index of the running method in mcp_clients
    mlast,         \* how the last method call ended
    mfound,        \* per server: how discover_tools last went for it
    mcalls,        \* number of method calls made
    mhist,         \* the number of the method call at which connect_servers first returned,
                   \* discover_tools first found a tool, create_agent first succeeded and
                   \* the agent was first invoked (0: never); the method called last and
                   \* the servers whose session that call has opened
    \* ---- the client configured from a file (mcp_client_strands_ext_config.py)
    os_environ,             \* os.environ of the process
    DEFAULT_MCP_SERVERS,    \* the value of the module-level dict of that name
    DEFAULT_BEDROCK_CONFIG, \* the value of the module-level dict of that name
    config_file,            \* the file the last load_config call looked at
    the_config,             \* run_comprehensive_tests: the value bound to config
    multi_agent,            \* run_comprehensive_tests: the MultiMCPAgent, once constructed
    printed,                \* the model ids print_config_summary and the final summary printed
    rstep,                  \* position in run_comprehensive_tests
    runs                    \* number of calls of run_comprehensive_tests in this process

srvVars == <<srvState, exitCode, exitCause, sessionOpen, pending, lastReq, firstList,
             lastCall, lastResp, failedSeen, handled, s3Buckets, s3Body, ddbItem,
             skind, output, srvEnv, awsClients>>

cliVars == <<ckind, cphase, transport, session, initialized, ip, inflight,
             reqLog, responses, creported, environ, shown, attempts, cerror>>

multiVars == <<server_configs, mcp_clients, all_tools, agent, msess, mop, mstep,
               midx, mlast, mfound, mcalls, mhist>>

cfgVars == <<os_environ, DEFAULT_MCP_SERVERS, DEFAULT_BEDROCK_CONFIG, config_file, the_config,
             multi_agent, printed, rstep, runs>>

vars == <<srvVars, cliVars, multiVars, cfgVars>>

----------------------------------------------------------------------------
(* Bounds *)

MaxRequests == 2

\* method calls made on one MultiMCPAgent
MaxCalls == 4

----------------------------------------------------------------------------
(* Text helpers *)

RECURSIVE Join(_)
\* ', '.join(names)
Join(names) ==
    IF Len(names) = 0 THEN <<>>
    ELSE IF Len(names) = 1 THEN <<names[1]>>
    ELSE <<names[1], ", ">> \o Join(Tail(names))

\* str(e) of an exception
StrExc(e) == e.msg

\* KeyError(k): str() is the repr of the key
KeyError(k) == [type |-> "KeyError", msg |-> <<"'", k, "'">>]

\* ValueError(f"Unknown tool: {name}")
UnknownToolError(name) == [type |-> "ValueError", msg |-> <<"Unknown tool: ", name>>]

ClientError(code) == [type |-> "ClientError", msg |-> <<code>>]

UnicodeDecodeError == [type |-> "UnicodeDecodeError", msg |-> <<"invalid start byte">>]

----------------------------------------------------------------------------
(* The backend (boto3 S3 client and DynamoDB resource) *)

\* Faults the backend may answer any request with, "none" for no fault
Faults == {"none", "AccessDenied"}

NoItem == [present |-> FALSE, attrs |-> <<>>]
Item1  == [present |-> TRUE, attrs |-> <<"{'k1': 'v1'}">>]

\* Object bodies: bytes that decode to a text, or bytes that are not UTF-8
TextBody(t) == [utf8 |-> TRUE, text |-> t]
BadBody     == [utf8 |-> FALSE, text |-> <<>>]
Bodies == {TextBody(<<"hello">>), TextBody(<<"Error: ", "AccessDenied">>), BadBody}

\* no object is stored under the key
NoObject == [utf8 |-> FALSE, text |-> <<"absent">>]

Ok(v)    == [ok |-> TRUE, value |-> v, exc |-> ClientError("none")]
Fail(e)  == [ok |-> FALSE, value |-> <<>>, exc |-> e]

\* s3_client.list_buckets(): the names of response['Buckets']
s3_list_buckets(fault) ==
    IF fault # "none" THEN Fail(ClientError(fault)) ELSE Ok(s3Buckets)

\* s3_client.get_object(Bucket=bucket, Key=key) and response['Body'].read()
s3_get_object(bucket, key, fault) ==
    IF fault # "none" THEN Fail(ClientError(fault))
    ELSE IF bucket = "b1" /\ key = "k1" /\ s3Body # NoObject THEN Ok(s3Body)
    ELSE Fail(ClientError("NoSuchKey"))

\* bytes.decode('utf-8')
decode(body) == IF body.utf8 THEN Ok(body.text) ELSE Fail(UnicodeDecodeError)

\* dynamodb.Table(table_name).get_item(Key={key: value}).get('Item', {})
ddb_get_item(table_name, key, value, fault) ==
    IF fault # "none" THEN Fail(ClientError(fault))
    ELSE IF table_name # "t1" THEN Fail(ClientError("ResourceNotFoundException"))
    ELSE IF key # "k1" THEN Fail(ClientError("ValidationException"))
    ELSE IF value = "v1" THEN Ok(ddbItem)
    ELSE Ok(NoItem)

\* str(item) of the dict get_item returned
StrItem(item) == IF item.present THEN item.attrs ELSE <<"{}">>

\* s3_client.put_object(Bucket=bucket, Key=key, Body=body): the body the
\* object b1/k1 has afterwards
s3_put_object(bucket, key, body, fault) ==
    IF fault # "none" THEN Fail(ClientError(fault))
    ELSE IF bucket # "b1" THEN Fail(ClientError("NoSuchBucket"))
    ELSE IF key = "k1" THEN Ok(body)
    ELSE Ok(s3Body)

\* the tables of the account
ddbTables == <<"t1">>

\* dynamodb_client.list_tables().get('TableNames', [])
ddb_list_tables(fault) ==
    IF fault # "none" THEN Fail(ClientError(fault)) ELSE Ok(ddbTables)

\* JSON documents a caller may pass as item_json
JsonItem == <<"{", "\"k1\": \"v1\"", ", ", "\"n\": \"2\"", "}">>
JsonNumber == <<"5">>
JsonBroken == <<"{", "\"k1\": ">>
JsonTexts == {JsonItem, JsonNumber, JsonBroken}

JSONDecodeError == [type |-> "JSONDecodeError", msg |-> <<"Expecting value">>]

\* json.loads(text): the value of a well-formed document, JSONDecodeError otherwise
json_loads(text) ==
    IF Len(text) = 1 /\ text[1] = "5"
    THEN Ok([isdict |-> FALSE, attrs |-> <<"5">>])
    ELSE IF Len(text) >= 2 /\ text[1] = "{" /\ text[Len(text)] = "}"
    THEN Ok([isdict |-> TRUE, attrs |-> <<"{'k1': 'v1', 'n': '2'}">>])
    ELSE Fail(JSONDecodeError)

\* dynamodb.Table(table_name).put_item(Item=item): the item stored under
\* k1 = v1 afterwards
ddb_put_item(table_name, item, fault) ==
    IF ~item.isdict THEN Fail([type |-> "ParamValidationError", msg |-> <<"Invalid type for parameter Item">>])
    ELSE IF fault # "none" THEN Fail(ClientError(fault))
    ELSE IF table_name # "t1" THEN Fail(ClientError("ResourceNotFoundException"))
    ELSE Ok([present |-> TRUE, attrs |-> item.attrs])

----------------------------------------------------------------------------
(* Requests *)

Params == {"bucket", "key", "table_name", "value"}

ArgVal(p) ==
    CASE p = "bucket"     -> {"b1"}
      [] p = "key"        -> {"k1"}
      [] p = "table_name" -> {"t1"}
      [] p = "value"      -> {"v1"}

AllVals == UNION {ArgVal(p) : p \in Params}

\* arguments: a dict from parameter names to values, any parameter may be absent
ArgDicts ==
    {a \in UNION {[D -> AllVals] : D \in SUBSET Params} :
        \A p \in DOMAIN a : a[p] \in ArgVal(p)}

ToolNames == {"list_s3_buckets", "get_s3_object", "query_dynamodb"}

\* names a client may send, registered or not
CallNames == ToolNames \cup {"put_s3_object"}

NoReq == [kind |-> "none", name |-> "", arguments |-> <<>>]

CallReq(name, arguments) == [kind |-> "call_tool", name |-> name, arguments |-> arguments]

ListReq == [kind |-> "list_tools", name |-> "", arguments |-> <<>>]

----------------------------------------------------------------------------
(* subprocess/mcp_server.py: call_tool *)

NoExc == [type |-> "none", msg |-> <<>>]

\* return [TextContent(type="text", text=t)]
Return(t) == [kind |-> "return", content |-> <<t>>, exc |-> NoExc]

\* an exception leaving call_tool
Raise(e) == [kind |-> "raise", content |-> <<>>, exc |-> e]

\* sys.exit(code) inside the handler
Exit == [kind |-> "exit", content |-> <<>>, exc |-> NoExc]

\* What one execution of call_tool did: the handler branches it ran, the
\* backend requests it made, whether a backend request raised, and how it ended
Did(handlers, backend, failed, outcome) ==
    [handlers |-> handlers, backend |-> backend, failed |-> failed, outcome |-> outcome]

\* list_s3_buckets that tries the backend a second time when the first request fails
branch_list_s3_buckets_retry(fault) ==
    LET r == s3_list_buckets(fault)
    IN IF r.ok
       THEN Did(<<"list_s3_buckets">>, <<"s3:ListBuckets">>, FALSE,
                Return(<<"S3 Buckets: ">> \o Join(r.value)))
       ELSE Did(<<"list_s3_buckets">>, <<"s3:ListBuckets", "s3:ListBuckets">>, TRUE,
                Raise(r.exc))

\* list_s3_buckets whose except block ends the process instead of re-raising
branch_list_s3_buckets_exit(fault) ==
    LET r == s3_list_buckets(fault)
        call == <<"s3:ListBuckets">>
    IN IF r.ok
       THEN Did(<<"list_s3_buckets">>, call, FALSE,
                Return(<<"S3 Buckets: ">> \o Join(r.value)))
       ELSE Did(<<"list_s3_buckets">>, call, TRUE, Exit)

\* name == "list_s3_buckets"
branch_list_s3_buckets(fault) ==
    LET r == s3_list_buckets(fault)
        call == <<"s3:ListBuckets">>
    IN IF r.ok
       THEN Did(<<"list_s3_buckets">>, call, FALSE,
                Return(<<"S3 Buckets: ">> \o Join(r.value)))
       ELSE Did(<<"list_s3_buckets">>, call, TRUE, Raise(r.exc))

\* get_s3_object reading its arguments with arguments.get(name, "")
branch_get_s3_object_get(arguments, fault) ==
    LET bucket == IF "bucket" \in DOMAIN arguments THEN arguments["bucket"] ELSE ""
        key == IF "key" \in DOMAIN arguments THEN arguments["key"] ELSE ""
        r == s3_get_object(bucket, key, fault)
        call == <<"s3:GetObject">>
    IN IF ~r.ok
       THEN Did(<<"get_s3_object">>, call, TRUE, Return(<<"Error: ">> \o StrExc(r.exc)))
       ELSE LET d == decode(r.value)
            IN IF d.ok
               THEN Did(<<"get_s3_object">>, call, FALSE, Return(d.value))
               ELSE Did(<<"get_s3_object">>, call, FALSE,
                        Return(<<"Error: ">> \o StrExc(d.exc)))

\* name == "get_s3_object"
branch_get_s3_object(arguments, fault) ==
    IF "bucket" \notin DOMAIN arguments
    THEN Did(<<"get_s3_object">>, <<>>, FALSE, Raise(KeyError("bucket")))
    ELSE IF "key" \notin DOMAIN arguments
    THEN Did(<<"get_s3_object">>, <<>>, FALSE, Raise(KeyError("key")))
    ELSE LET r == s3_get_object(arguments["bucket"], arguments["key"], fault)
             call == <<"s3:GetObject">>
         IN IF ~r.ok
            THEN Did(<<"get_s3_object">>, call, TRUE,
                     Return(<<"Error: ">> \o StrExc(r.exc)))
            ELSE LET d == decode(r.value)
                 IN IF d.ok
                    THEN Did(<<"get_s3_object">>, call, FALSE, Return(d.value))
                    ELSE Did(<<"get_s3_object">>, call, FALSE,
                             Return(<<"Error: ">> \o StrExc(d.exc)))

\* name == "query_dynamodb"
branch_query_dynamodb(arguments, fault) ==
    IF "table_name" \notin DOMAIN arguments
    THEN Did(<<"query_dynamodb">>, <<>>, FALSE, Raise(KeyError("table_name")))
    ELSE IF "key" \notin DOMAIN arguments
    THEN Did(<<"query_dynamodb">>, <<>>, FALSE, Raise(KeyError("key")))
    ELSE IF "value" \notin DOMAIN arguments
    THEN Did(<<"query_dynamodb">>, <<>>, FALSE, Raise(KeyError("value")))
    ELSE LET r == ddb_get_item(arguments["table_name"], arguments["key"],
                               arguments["value"], fault)
             call == <<"dynamodb:GetItem">>
         IN IF r.ok
            THEN Did(<<"query_dynamodb">>, call, FALSE, Return(StrItem(r.value)))
            ELSE Did(<<"query_dynamodb">>, call, TRUE,
                     Return(<<"Error: ">> \o StrExc(r.exc)))

\* an unknown name answered with a text instead of an exception
branch_unknown_text(name) ==
    Did(<<>>, <<>>, FALSE, Return(<<"Unknown tool: ", name>>))

\* raise ValueError(f"Unknown tool: {name}")
branch_unknown(name) ==
    Did(<<>>, <<>>, FALSE, Raise(UnknownToolError(name)))

\* call_tool without the branch for query_dynamodb
call_tool_no_query(name, arguments, fault) ==
    IF name = "list_s3_buckets" THEN branch_list_s3_buckets(fault)
    ELSE IF name = "get_s3_object" THEN branch_get_s3_object(arguments, fault)
    ELSE branch_unknown(name)

\* call_tool that numbers the bucket listings it has served
call_tool_counting(name, arguments, fault) ==
    IF name = "list_s3_buckets"
    THEN Did(<<"list_s3_buckets">>, <<"s3:ListBuckets">>, fault # "none",
             Return(<<"S3 Buckets #", IF handled = 0 THEN "1" ELSE "later">>))
    ELSE IF name = "get_s3_object" THEN branch_get_s3_object(arguments, fault)
    ELSE IF name = "query_dynamodb" THEN branch_query_dynamodb(arguments, fault)
    ELSE branch_unknown(name)

\* async def call_tool(name, arguments); the outer except logs and re-raises
call_tool(name, arguments, fault) ==
    IF name = "list_s3_buckets" THEN branch_list_s3_buckets(fault)
    ELSE IF name = "get_s3_object" THEN branch_get_s3_object(arguments, fault)
    ELSE IF name = "query_dynamodb" THEN branch_query_dynamodb(arguments, fault)
    ELSE branch_unknown(name)

\* Tool(name=..., description=..., inputSchema={... "required": [...]})
Tool(name, description, required) ==
    [name |-> name, description |-> description, required |-> required]

\* list_tools over a registry that serving a request reorders
list_tools_reordered ==
    IF handled = 0
    THEN << Tool("list_s3_buckets", "List all S3 buckets", <<>>),
            Tool("get_s3_object", "Get an object from S3", <<"bucket", "key">>),
            Tool("query_dynamodb", "Query a DynamoDB table", <<"table_name", "key", "value">>) >>
    ELSE << Tool("get_s3_object", "Get an object from S3", <<"bucket", "key">>),
            Tool("query_dynamodb", "Query a DynamoDB table", <<"table_name", "key", "value">>),
            Tool("list_s3_buckets", "List all S3 buckets", <<>>) >>

\* async def list_tools() -> list[Tool]
list_tools ==
    << Tool("list_s3_buckets", "List all S3 buckets", <<>>),
       Tool("get_s3_object", "Get an object from S3", <<"bucket", "key">>),
       Tool("query_dynamodb", "Query a DynamoDB table", <<"table_name", "key", "value">>) >>

----------------------------------------------------------------------------
(* subprocess/mcp_server.py: the server process *)

NoCall == Did(<<>>, <<>>, FALSE, [kind |-> "none", content |-> <<>>, exc |-> NoExc])

NoResp == [kind |-> "none", isError |-> FALSE, content |-> <<>>, tools |-> <<>>]

ToolResult(isError, content) ==
    [kind |-> "result", isError |-> isError, content |-> content, tools |-> <<>>]

ListToolsResult(tools) ==
    [kind |-> "tools", isError |-> FALSE, content |-> <<>>, tools |-> tools]

\* The request handler app.call_tool() registers around call_tool: returned
\* content becomes a ToolResult, an exception a ToolResult with isError = true
\* and the exception's text as its single content block.
app_call_tool(outcome) ==
    IF outcome.kind = "return" THEN ToolResult(FALSE, outcome.content)
    ELSE ToolResult(TRUE, <<StrExc(outcome.exc)>>)

\* a print without file=sys.stderr
log_stdout(message) ==
    [stream |-> "stdout", kind |-> "diagnostic", text |-> <<"[SERVER] ">> \o message]

\* def log(message): print(f"[SERVER] {message}", file=sys.stderr, flush=True).
\* A line is recorded with its literal text; the values an f-string
\* interpolates are left out of the record.
log(message) ==
    [stream |-> "stderr", kind |-> "diagnostic", text |-> <<"[SERVER] ">> \o message]

\* traceback.print_exc(file=sys.stderr)
print_exc == [stream |-> "stderr", kind |-> "diagnostic", text |-> <<"Traceback">>]

\* the traceback the interpreter prints for an exception nothing caught
uncaught == [stream |-> "stderr", kind |-> "diagnostic", text |-> <<"Traceback (uncaught)">>]

\* a response written to the write stream of stdio_server()
Frame(resp) == [stream |-> "stdout", kind |-> "frame", text |-> <<resp.kind>>]

Unset == "<unset>"

Regions == {"us-east-1", "eu-west-1"}

\* the AWS variables of a process environment
Envs == [AWS_PROFILE : {Unset, "dev"},
         AWS_DEFAULT_REGION : {Unset} \cup Regions,
         AWS_REGION : {Unset} \cup Regions]

NoEnv == [AWS_PROFILE |-> Unset, AWS_DEFAULT_REGION |-> Unset, AWS_REGION |-> Unset]

\* env.get(name, default)
EnvGet(env, name, default) == IF env[name] = Unset THEN default ELSE env[name]

NoClients == [region |-> "", profile |-> ""]

\* boto3.client('s3', region_name="us-east-1") and
\* boto3.resource('dynamodb', region_name="us-east-1"): the region is the
\* literal argument, the profile is the one boto3's default session takes
\* from AWS_PROFILE
Boto3Clients(env) ==
    [region |-> "us-east-1", profile |-> EnvGet(env, "AWS_PROFILE", "default")]

\* a server process that has not run any line of its script
ProcessInit ==
    /\ output = {}
    /\ awsClients = NoClients
    /\ exitCode = -1
    /\ exitCause = "none"
    /\ sessionOpen = TRUE
    /\ pending = NoReq
    /\ lastReq = NoReq
    /\ firstList = NoResp
    /\ lastCall = NoCall
    /\ lastResp = NoResp
    /\ failedSeen = FALSE
    /\ handled = 0
    /\ s3Buckets \in {<<>>, <<"b1", "b2">>}
    /\ s3Body \in Bodies \cup {NoObject}
    /\ ddbItem \in {NoItem, Item1}

\* python mcp_server.py, started in an environment without AWS variables
ServerInit ==
    /\ ProcessInit
    /\ skind = "lowlevel"
    /\ srvState = "starting"
    /\ srvEnv = NoEnv

\* module initialisation: boto3.client / boto3.resource succeed
InitClientsOk ==
    /\ UNCHANGED <<cliVars, multiVars, cfgVars>>
    /\ skind = "lowlevel"
    /\ srvState = "starting"
    /\ srvState' = "running"
    /\ awsClients' = Boto3Clients(srvEnv)
    /\ output' = output \cup {log(<<"Starting AWS MCP Server...">>),
                              log(<<"Initializing AWS clients...">>),
                              log(<<"AWS clients initialized successfully">>),
                              log(<<"Running asyncio.run(main())...">>),
                              log(<<"Starting stdio server...">>),
                              log(<<"stdio server started, running app...">>)}
    /\ UNCHANGED <<skind, srvEnv>>
    /\ UNCHANGED <<exitCode, exitCause, sessionOpen, pending, lastReq, firstList, lastCall, lastResp,
                   failedSeen, handled, s3Buckets, s3Body, ddbItem>>

\* module initialisation: constructing a client raises, sys.exit(1)
InitClientsFail ==
    /\ UNCHANGED <<cliVars, multiVars, cfgVars>>
    /\ skind = "lowlevel"
    /\ srvState = "starting"
    /\ srvState' = "exited"
    /\ output' = output \cup {log(<<"Starting AWS MCP Server...">>),
                              log(<<"Initializing AWS clients...">>),
                              log(<<"ERROR initializing AWS clients: ">>)}
    /\ UNCHANGED <<skind, srvEnv, awsClients>>
    /\ exitCode' = 1
    /\ exitCause' = "init"
    /\ UNCHANGED <<sessionOpen, pending, lastReq, firstList, lastCall, lastResp,
                   failedSeen, handled, s3Buckets, s3Body, ddbItem>>

\* app.run reads the next request of the session from the read stream; the
\* client has consumed the response to the previous one
ReadRequest(req) ==
    /\ UNCHANGED <<cliVars, multiVars, cfgVars>>
    /\ skind = "lowlevel"
    /\ UNCHANGED <<skind, output, srvEnv, awsClients>>
    /\ srvState = "running"
    /\ sessionOpen
    /\ pending = NoReq
    /\ handled < MaxRequests
    /\ pending' = req
    /\ lastReq' = NoReq
    /\ lastCall' = NoCall
    /\ lastResp' = NoResp
    /\ UNCHANGED <<srvState, exitCode, exitCause, sessionOpen, firstList,
                   failedSeen, handled, s3Buckets, s3Body, ddbItem>>

\* app.run dispatches a list_tools request to list_tools()
HandleListTools ==
    /\ UNCHANGED <<cliVars, multiVars, cfgVars>>
    /\ skind = "lowlevel"
    /\ srvState = "running"
    /\ pending.kind = "list_tools"
    /\ output' = output \cup {log(<<"list_tools called">>),
                              Frame(ListToolsResult(list_tools))}
    /\ UNCHANGED <<skind, srvEnv, awsClients>>
    /\ lastResp' = ListToolsResult(list_tools)
    /\ firstList' = IF firstList.kind = "none" THEN ListToolsResult(list_tools) ELSE firstList
    /\ lastReq' = pending
    /\ pending' = NoReq
    /\ handled' = handled + 1
    /\ UNCHANGED <<srvState, exitCode, exitCause, sessionOpen, lastCall,
                   failedSeen, s3Buckets, s3Body, ddbItem>>

\* the lines call_tool writes: one on entry, one in the outer except
call_tool_log(outcome) ==
    {log(<<"call_tool: ", " with ">>)}
        \cup (IF outcome.kind = "raise" THEN {log(<<"ERROR in call_tool: ">>)} ELSE {})

\* app.run dispatches a call_tool request to call_tool(name, arguments)
HandleCallTool(fault) ==
    /\ UNCHANGED <<cliVars, multiVars, cfgVars>>
    /\ skind = "lowlevel"
    /\ UNCHANGED <<skind, srvEnv, awsClients>>
    /\ srvState = "running"
    /\ pending.kind = "call_tool"
    /\ LET d == call_tool(pending.name, pending.arguments, fault)
       IN /\ lastCall' = d
          /\ output' = output \cup call_tool_log(d.outcome)
                               \cup (IF d.outcome.kind = "exit" THEN {}
                                     ELSE {Frame(app_call_tool(d.outcome))})
          /\ lastReq' = pending
          /\ failedSeen' = (failedSeen \/ d.failed \/ d.outcome.kind # "return")
          /\ handled' = handled + 1
          /\ IF d.outcome.kind = "exit"
             THEN /\ srvState' = "exited"
                  /\ exitCode' = 1
                  /\ exitCause' = "handler"
                  /\ UNCHANGED <<pending, lastResp>>
             ELSE /\ lastResp' = app_call_tool(d.outcome)
                  /\ pending' = NoReq
                  /\ UNCHANGED <<srvState, exitCode, exitCause>>
    /\ UNCHANGED <<sessionOpen, firstList, s3Buckets, s3Body, ddbItem>>

\* the client closes the streams: app.run returns, main returns, exit status 0
SessionEnd ==
    /\ UNCHANGED <<cliVars, multiVars, cfgVars>>
    /\ skind = "lowlevel"
    /\ UNCHANGED <<skind, output, srvEnv, awsClients>>
    /\ srvState = "running"
    /\ sessionOpen
    /\ pending = NoReq
    /\ sessionOpen' = FALSE
    /\ srvState' = "exited"
    /\ exitCode' = 0
    /\ exitCause' = "eof"
    /\ UNCHANGED <<pending, lastReq, firstList, lastCall, lastResp, failedSeen, handled,
                   s3Buckets, s3Body, ddbItem>>

\* stdio_server / app.run raises: main logs and re-raises, __main__ exits 1
RunLoopFatal ==
    /\ UNCHANGED <<cliVars, multiVars, cfgVars>>
    /\ skind = "lowlevel"
    /\ srvState = "running"
    /\ srvState' = "exited"
    /\ exitCode' = 1
    /\ exitCause' = "fatal"
    /\ output' = output \cup {log(<<"ERROR in main: ">>), print_exc,
                              log(<<"FATAL ERROR: ">>)}
    /\ UNCHANGED <<skind, srvEnv, awsClients>>
    /\ UNCHANGED <<sessionOpen, pending, lastReq, firstList, lastCall, lastResp, failedSeen, handled,
                   s3Buckets, s3Body, ddbItem>>

Requests == {ListReq} \cup {CallReq(n, a) : n \in CallNames, a \in ArgDicts}

ServerNext ==
    \/ InitClientsOk
    \/ InitClientsFail
    \/ \E req \in Requests : ReadRequest(req)
    \/ HandleListTools
    \/ \E fault \in Faults : HandleCallTool(fault)
    \/ SessionEnd
    \/ RunLoopFatal

----------------------------------------------------------------------------
(* The FastMCP servers: subprocess-strands/mcp_server_strands.py (stdio, run
   by its main or by test_server_direct.py) and
   local-strands/mcp_server_strands.py (HTTP).  Their tool functions differ in
   the log lines, which only the stdio script writes, and in the text of the
   two listings. *)

\* server scripts that speak the protocol on stdin/stdout
StdioKinds == {"lowlevel", "fastmcp", "direct"}

FastKinds == {"fastmcp", "direct", "http"}

\* str(n) of a small count
StrNat(n) == IF n = 0 THEN "0" ELSE IF n = 1 THEN "1" ELSE IF n = 2 THEN "2" ELSE "many"

RECURSIVE Bullets(_)
\* "\n".join(f"  - {b}" for b in names)
Bullets(names) ==
    IF Len(names) = 0 THEN <<>>
    ELSE IF Len(names) = 1 THEN <<"  - ", names[1]>>
    ELSE <<"  - ", names[1], "\n">> \o Bullets(Tail(names))

\* the log lines of a tool function: the HTTP script has none
Logged(kind, lines) == IF kind = "http" THEN {} ELSE lines

\* What one execution of a tool function did: the text it returned, the lines
\* it logged, the backend requests it made, whether one raised, and the
\* object body and the item the backend holds afterwards
Ran(text, logs, backend, failed, body, item) ==
    [text |-> text, logs |-> logs, backend |-> backend, failed |-> failed,
     body |-> body, item |-> item]

\* @mcp.tool() def list_s3_buckets() -> str
list_s3_buckets(kind, fault) ==
    LET r == s3_list_buckets(fault)
        n == StrNat(Len(r.value))
    IN IF r.ok
       THEN Ran(IF kind = "http"
                THEN <<"S3 Buckets (", n, " total):\n">> \o Bullets(r.value)
                ELSE <<"S3 Buckets (", n, "): ">> \o Join(r.value),
                Logged(kind, {log(<<"list_s3_buckets called">>),
                              log(<<"Successfully listed ", " buckets">>)}),
                <<"s3:ListBuckets">>, FALSE, s3Body, ddbItem)
       ELSE Ran(<<"Error listing S3 buckets: ">> \o StrExc(r.exc),
                Logged(kind, {log(<<"list_s3_buckets called">>), log(<<"ERROR: ">>)}),
                <<"s3:ListBuckets">>, TRUE, s3Body, ddbItem)

\* @mcp.tool() def get_s3_object(bucket, key) -> str
get_s3_object(kind, bucket, key, fault) ==
    LET r == s3_get_object(bucket, key, fault)
        d == IF r.ok THEN decode(r.value) ELSE r
        called == log(<<"get_s3_object called: bucket=", ", key=">>)
    IN IF r.ok /\ d.ok
       THEN Ran(d.value,
                Logged(kind, {called, log(<<"Successfully retrieved object ", " from bucket ">>)}),
                <<"s3:GetObject">>, FALSE, s3Body, ddbItem)
       ELSE Ran(<<"Error getting S3 object: ">> \o StrExc(d.exc),
                Logged(kind, {called, log(<<"ERROR: ">>)}),
                <<"s3:GetObject">>, ~r.ok, s3Body, ddbItem)

\* @mcp.tool() def put_s3_object(bucket, key, content) -> str
put_s3_object(kind, bucket, key, content, fault) ==
    LET r == s3_put_object(bucket, key, TextBody(content), fault)
        called == log(<<"put_s3_object called: bucket=", ", key=">>)
        result == <<"Successfully uploaded object to s3://", bucket, "/", key>>
    IN IF r.ok
       THEN Ran(result, Logged(kind, {called, log(result)}),
                <<"s3:PutObject">>, FALSE, r.value, ddbItem)
       ELSE Ran(<<"Error uploading to S3: ">> \o StrExc(r.exc),
                Logged(kind, {called, log(<<"ERROR: ">>)}),
                <<"s3:PutObject">>, TRUE, s3Body, ddbItem)

\* list_dynamodb_tables that answers a failed request like an empty listing
list_dynamodb_tables_quiet(kind, fault) ==
    LET r == ddb_list_tables(fault)
        n == StrNat(Len(r.value))
    IN Ran(IF kind = "http"
           THEN <<"DynamoDB Tables (", n, " total):\n">> \o Bullets(r.value)
           ELSE <<"DynamoDB Tables (", n, "): ">> \o Join(r.value),
           Logged(kind, {log(<<"list_dynamodb_tables called">>),
                         log(<<"Successfully listed ", " tables">>)}),
           <<"dynamodb:ListTables">>, ~r.ok, s3Body, ddbItem)

\* @mcp.tool() def list_dynamodb_tables() -> str
list_dynamodb_tables(kind, fault) ==
    LET r == ddb_list_tables(fault)
        n == StrNat(Len(r.value))
    IN IF r.ok
       THEN Ran(IF kind = "http"
                THEN <<"DynamoDB Tables (", n, " total):\n">> \o Bullets(r.value)
                ELSE <<"DynamoDB Tables (", n, "): ">> \o Join(r.value),
                Logged(kind, {log(<<"list_dynamodb_tables called">>),
                              log(<<"Successfully listed ", " tables">>)}),
                <<"dynamodb:ListTables">>, FALSE, s3Body, ddbItem)
       ELSE Ran(<<"Error listing DynamoDB tables: ">> \o StrExc(r.exc),
                Logged(kind, {log(<<"list_dynamodb_tables called">>), log(<<"ERROR: ">>)}),
                <<"dynamodb:ListTables">>, TRUE, s3Body, ddbItem)

\* @mcp.tool() def query_dynamodb(table_name, key, value) -> str
query_dynamodb(kind, table_name, key, value, fault) ==
    LET r == ddb_get_item(table_name, key, value, fault)
        called == log(<<"query_dynamodb called: table=", ", key=", ", value=">>)
    IN IF ~r.ok
       THEN Ran(<<"Error querying DynamoDB: ">> \o StrExc(r.exc),
                Logged(kind, {called, log(<<"ERROR: ">>)}),
                <<"dynamodb:GetItem">>, TRUE, s3Body, ddbItem)
       ELSE IF r.value.present
       THEN Ran(<<"Found item: ">> \o StrItem(r.value),
                Logged(kind, {called, log(<<"Successfully retrieved item">>)}),
                <<"dynamodb:GetItem">>, FALSE, s3Body, ddbItem)
       ELSE Ran(<<"No item found with ", key, "=", value>>,
                Logged(kind, {called, log(<<"No item found">>)}),
                <<"dynamodb:GetItem">>, FALSE, s3Body, ddbItem)

\* put_dynamodb_item that stores the text as it came when it cannot be parsed
put_dynamodb_item_unparsed(kind, table_name, item_json, fault) ==
    LET j == json_loads(item_json)
        r == IF j.ok THEN ddb_put_item(table_name, j.value, fault) ELSE j
        called == log(<<"put_dynamodb_item called: table=">>)
        result == <<"Successfully put item into ", table_name>>
    IN IF j.ok /\ r.ok
       THEN Ran(result, Logged(kind, {called, log(result)}),
                <<"dynamodb:PutItem">>, FALSE, s3Body, r.value)
       ELSE Ran(<<"Error putting item to DynamoDB: ">> \o StrExc(r.exc),
                Logged(kind, {called, log(<<"ERROR: ">>)}),
                <<"dynamodb:PutItem">>, j.ok, s3Body,
                IF j.ok THEN ddbItem ELSE [present |-> TRUE, attrs |-> item_json])

\* @mcp.tool() def put_dynamodb_item(table_name, item_json) -> str
put_dynamodb_item(kind, table_name, item_json, fault) ==
    LET j == json_loads(item_json)
        r == IF j.ok THEN ddb_put_item(table_name, j.value, fault) ELSE j
        called == log(<<"put_dynamodb_item called: table=">>)
        result == <<"Successfully put item into ", table_name>>
    IN IF j.ok /\ r.ok
       THEN Ran(result, Logged(kind, {called, log(result)}),
                <<"dynamodb:PutItem">>, FALSE, s3Body, r.value)
       ELSE Ran(<<"Error putting item to DynamoDB: ">> \o StrExc(r.exc),
                Logged(kind, {called, log(<<"ERROR: ">>)}),
                IF j.ok THEN <<"dynamodb:PutItem">> ELSE <<>>, j.ok, s3Body, ddbItem)

\* the functions registered with @mcp.tool(), in the order of the script
FastTools == <<"list_s3_buckets", "get_s3_object", "put_s3_object",
               "list_dynamodb_tables", "query_dynamodb", "put_dynamodb_item">>

\* calls of the registered tools with arguments of the declared types
FastRequests ==
    {ListReq,
     CallReq("list_s3_buckets", <<>>),
     CallReq("get_s3_object", [bucket |-> "b1", key |-> "k1"]),
     CallReq("put_s3_object", [bucket |-> "b1", key |-> "k1", content |-> <<"new">>]),
     CallReq("list_dynamodb_tables", <<>>),
     CallReq("query_dynamodb", [table_name |-> "t1", key |-> "k1", value |-> "v1"])}
    \cup {CallReq("put_dynamodb_item", [table_name |-> "t1", item_json |-> j]) : j \in JsonTexts}

\* the tool manager calls the function registered under the request's name
RunTool(kind, req, fault) ==
    LET a == req.arguments
    IN CASE req.name = "list_s3_buckets" -> list_s3_buckets(kind, fault)
         [] req.name = "get_s3_object" -> get_s3_object(kind, a.bucket, a.key, fault)
         [] req.name = "put_s3_object" -> put_s3_object(kind, a.bucket, a.key, a.content, fault)
         [] req.name = "list_dynamodb_tables" -> list_dynamodb_tables(kind, fault)
         [] req.name = "query_dynamodb" ->
                query_dynamodb(kind, a.table_name, a.key, a.value, fault)
         [] req.name = "put_dynamodb_item" ->
                put_dynamodb_item(kind, a.table_name, a.item_json, fault)

\* print(...) of the HTTP script, and print(..., file=sys.stderr) of the test script
print(stream, text) == [stream |-> stream, kind |-> "diagnostic", text |-> text]

\* How a script ends: the exit status of the process and the lines written
Ends(status, lines) == [status |-> status, lines |-> lines]

\* a main whose except Exception block only logs
main_swallow(raised) ==
    IF raised = "KeyboardInterrupt" THEN Ends(0, {log(<<"Server stopped by user">>)})
    ELSE IF raised = "Exception" THEN Ends(0, {log(<<"FATAL ERROR: ">>), print_exc})
    ELSE Ends(0, {})

\* def main() of subprocess-strands/mcp_server_strands.py, from the return or
\* the exception of mcp.run(): KeyboardInterrupt is logged and main returns,
\* any other exception is logged and ends in sys.exit(1)
main(raised) ==
    IF raised = "KeyboardInterrupt" THEN Ends(0, {log(<<"Server stopped by user">>)})
    ELSE IF raised = "Exception" THEN Ends(1, {log(<<"FATAL ERROR: ">>), print_exc})
    ELSE Ends(0, {})

\* test_server_direct.py calls mcp.run() outside any try: what it raises ends
\* the interpreter, 130 being the status of a process stopped by Ctrl-C
test_server_direct(raised) ==
    IF raised = "KeyboardInterrupt" THEN Ends(130, {uncaught})
    ELSE IF raised = "Exception" THEN Ends(1, {uncaught})
    ELSE Ends(0, {})

\* the lines of the stdio script up to the construction of the clients
ImportLines == {log(<<"Starting AWS MCP Server with FastMCP...">>),
                log(<<"Initializing AWS clients...">>)}

\* module initialisation of the stdio script succeeds and mcp.run() starts
FastInitOk ==
    /\ UNCHANGED <<cliVars, multiVars, cfgVars>>
    /\ skind \in {"fastmcp", "direct"}
    /\ srvState = "starting"
    /\ srvState' = "running"
    /\ awsClients' = Boto3Clients(srvEnv)
    /\ output' = output \cup ImportLines
                        \cup {log(<<"AWS clients initialized successfully">>)}
                        \cup (IF skind = "fastmcp"
                              THEN {log(<<"Starting FastMCP server with stdio transport...">>)}
                              ELSE {print("stderr", <<"Testing server startup...">>)})
    /\ UNCHANGED <<exitCode, exitCause, sessionOpen, pending, lastReq, firstList, lastCall,
                   lastResp, failedSeen, handled, s3Buckets, s3Body, ddbItem, skind, srvEnv>>

\* module initialisation of the stdio script: constructing a client raises, sys.exit(1)
FastInitFail ==
    /\ UNCHANGED <<cliVars, multiVars, cfgVars>>
    /\ skind \in {"fastmcp", "direct"}
    /\ srvState = "starting"
    /\ srvState' = "exited"
    /\ exitCode' = 1
    /\ exitCause' = "init"
    /\ output' = output \cup ImportLines \cup {log(<<"ERROR initializing AWS clients: ">>)}
    /\ UNCHANGED <<sessionOpen, pending, lastReq, firstList, lastCall, lastResp, failedSeen,
                   handled, s3Buckets, s3Body, ddbItem, skind, srvEnv, awsClients>>

\* if aws_profile: print(f"Using AWS profile: {aws_profile}")
\* else: print("Using default AWS credentials")
UsingLine(env) ==
    IF env.AWS_PROFILE # Unset THEN print("stdout", <<"Using AWS profile: ">>)
    ELSE print("stdout", <<"Using default AWS credentials">>)

\* module initialisation of the HTTP script: the session takes profile and
\* region from the environment, the lines go to standard output
HttpInitOk ==
    /\ UNCHANGED <<cliVars, multiVars, cfgVars>>
    /\ skind = "http"
    /\ srvState = "starting"
    /\ srvState' = "running"
    /\ awsClients' = [region |-> EnvGet(srvEnv, "AWS_DEFAULT_REGION", "us-east-1"),
                      profile |-> EnvGet(srvEnv, "AWS_PROFILE", "default")]
    /\ output' = output \cup {UsingLine(srvEnv),
                              print("stdout", <<"AWS Account: ">>),
                              print("stdout", <<"AWS User/Role: ">>),
                              print("stdout", <<"Starting AWS MCP Server (HTTP)">>)}
    /\ UNCHANGED <<exitCode, exitCause, sessionOpen, pending, lastReq, firstList, lastCall,
                   lastResp, failedSeen, handled, s3Buckets, s3Body, ddbItem, skind, srvEnv>>

\* the HTTP script has no try around its initialisation: an exception of
\* boto3.Session or get_caller_identity ends the interpreter
HttpInitFail ==
    /\ UNCHANGED <<cliVars, multiVars, cfgVars>>
    /\ skind = "http"
    /\ srvState = "starting"
    /\ srvState' = "exited"
    /\ exitCode' = 1
    /\ exitCause' = "init"
    /\ output' = output \cup {UsingLine(srvEnv), uncaught}
    /\ UNCHANGED <<sessionOpen, pending, lastReq, firstList, lastCall, lastResp, failedSeen,
                   handled, s3Buckets, s3Body, ddbItem, skind, srvEnv, awsClients>>

\* mcp.run() reads the next request
FastRead(req) ==
    /\ UNCHANGED <<cliVars, multiVars, cfgVars>>
    /\ skind \in FastKinds
    /\ srvState = "running"
    /\ sessionOpen
    /\ pending.kind = "none"
    /\ handled < MaxRequests
    /\ pending' = req
    /\ lastReq' = NoReq
    /\ lastCall' = NoCall
    /\ lastResp' = NoResp
    /\ UNCHANGED <<srvState, exitCode, exitCause, sessionOpen, firstList, failedSeen, handled,
                   s3Buckets, s3Body, ddbItem, skind, output, srvEnv, awsClients>>

\* the response of a FastMCP server: a frame on standard output under the
\* stdio transport, an HTTP response otherwise
Written(kind, resp) == IF kind = "http" THEN {} ELSE {Frame(resp)}

\* mcp.run() answers list_tools from the registered functions
FastListTools ==
    /\ UNCHANGED <<cliVars, multiVars, cfgVars>>
    /\ skind \in FastKinds
    /\ srvState = "running"
    /\ pending.kind = "list_tools"
    /\ LET resp == ListToolsResult(FastTools)
       IN /\ lastResp' = resp
          /\ firstList' = IF firstList.kind = "none" THEN resp ELSE firstList
          /\ output' = output \cup Written(skind, resp)
    /\ lastReq' = pending
    /\ pending' = NoReq
    /\ handled' = handled + 1
    /\ UNCHANGED <<srvState, exitCode, exitCause, sessionOpen, lastCall, failedSeen,
                   s3Buckets, s3Body, ddbItem, skind, srvEnv, awsClients>>

\* mcp.run() calls the tool function and sends the string it returns as the
\* text of the result
FastCallTool(fault) ==
    /\ UNCHANGED <<cliVars, multiVars, cfgVars>>
    /\ skind \in FastKinds
    /\ srvState = "running"
    /\ pending.kind = "call_tool"
    /\ LET d == RunTool(skind, pending, fault)
           resp == app_call_tool(Return(d.text))
       IN /\ lastCall' = Did(<<pending.name>>, d.backend, d.failed, Return(d.text))
          /\ lastResp' = resp
          /\ failedSeen' = (failedSeen \/ d.failed)
          /\ output' = output \cup d.logs \cup Written(skind, resp)
          /\ s3Body' = d.body
          /\ ddbItem' = d.item
    /\ lastReq' = pending
    /\ pending' = NoReq
    /\ handled' = handled + 1
    /\ UNCHANGED <<srvState, exitCode, exitCause, sessionOpen, firstList, s3Buckets,
                   skind, srvEnv, awsClients>>

\* mcp.run() of a stdio script returns (end of input) or raises, and the
\* script ends as its entry point decides
FastStop(raised) ==
    /\ UNCHANGED <<cliVars, multiVars, cfgVars>>
    /\ skind \in {"fastmcp", "direct"}
    /\ srvState = "running"
    /\ raised = "none" => (sessionOpen /\ pending.kind = "none")
    /\ LET e == IF skind = "fastmcp" THEN main(raised) ELSE test_server_direct(raised)
       IN /\ exitCode' = e.status
          /\ output' = output \cup e.lines
    /\ exitCause' = (IF raised = "none" THEN "eof"
                     ELSE IF raised = "KeyboardInterrupt" THEN "interrupt" ELSE "fatal")
    /\ sessionOpen' = (sessionOpen /\ raised # "none")
    /\ srvState' = "exited"
    /\ UNCHANGED <<pending, lastReq, firstList, lastCall, lastResp, failedSeen, handled,
                   s3Buckets, s3Body, ddbItem, skind, srvEnv, awsClients>>

\* Ctrl-C while asyncio.run(main()) of mcp_server.py runs: KeyboardInterrupt is
\* not an Exception, no except block of the script catches it
Interrupted ==
    /\ UNCHANGED <<cliVars, multiVars, cfgVars>>
    /\ skind = "lowlevel"
    /\ srvState = "running"
    /\ srvState' = "exited"
    /\ exitCode' = 130
    /\ exitCause' = "interrupt"
    /\ output' = output \cup {uncaught}
    /\ UNCHANGED <<sessionOpen, pending, lastReq, firstList, lastCall, lastResp, failedSeen,
                   handled, s3Buckets, s3Body, ddbItem, skind, srvEnv, awsClients>>

Raisable == {"none", "KeyboardInterrupt", "Exception"}

FastNext ==
    \/ FastInitOk
    \/ FastInitFail
    \/ HttpInitOk
    \/ HttpInitFail
    \/ \E req \in FastRequests : FastRead(req)
    \/ FastListTools
    \/ \E fault \in Faults : FastCallTool(fault)
    \/ \E raised \in Raisable : FastStop(raised)
    \/ Interrupted

----------------------------------------------------------------------------
(* The direct clients: main() of subprocess/mcp_client.py, local/mcp_client.py
   and remote/mcp_client.py *)

Step(op, guarded) == [op |-> op, guarded |-> guarded]

\* a main that lists the tools before it initializes the session
Program_list_first(kind) ==
    IF kind = "remote"
    THEN << Step("list_tools", FALSE), Step("initialize", FALSE),
            Step("call_tool", TRUE), Step("call_tool", TRUE), Step("call_tool", TRUE),
            Step("call_tool", TRUE), Step("call_tool", TRUE), Step("call_tool", TRUE),
            Step("call_tool", TRUE), Step("call_tool", TRUE), Step("call_tool", TRUE),
            Step("call_tool", TRUE) >>
    ELSE << Step("list_tools", FALSE), Step("initialize", FALSE),
            Step("call_tool", FALSE) >>

\* The requests main awaits inside its two `async with` blocks, in program
\* order; guarded: the await stands in a try/except of its own.  The remote
\* client makes seven guarded calls and three more in its region loop.
Program(kind) ==
    IF kind = "remote"
    THEN << Step("initialize", FALSE), Step("list_tools", FALSE),
            Step("call_tool", TRUE), Step("call_tool", TRUE), Step("call_tool", TRUE),
            Step("call_tool", TRUE), Step("call_tool", TRUE), Step("call_tool", TRUE),
            Step("call_tool", TRUE), Step("call_tool", TRUE), Step("call_tool", TRUE),
            Step("call_tool", TRUE) >>
    ELSE << Step("initialize", FALSE), Step("list_tools", FALSE),
            Step("call_tool", FALSE) >>

\* a context entered by hand and closed only at the end of the block
AfterWith_leak(how) == IF how = "exception" THEN "open" ELSE "closed"

\* State of a context manager once its `async with` block has been left,
\* normally or by an exception: __aexit__ has run.
AfterWith(how) == "closed"

\* requests started as tasks instead of being awaited
Suspended_never(outstanding) == FALSE

\* `await session.<request>(...)`: main does not go on while the request it
\* issued has no response
Suspended(outstanding) == outstanding # {}

DirectKinds == {"subprocess", "local", "remote"}

NoShown == [profile |-> "", region |-> ""]

\* aws_profile = env.get("AWS_PROFILE", "default")
\* aws_region = env.get("AWS_DEFAULT_REGION", env.get("AWS_REGION", "us-east-1"))
\* print(f"AWS Profile: {aws_profile}"); print(f"AWS Region: {aws_region}")
DisplayedConfig(env) ==
    [profile |-> EnvGet(env, "AWS_PROFILE", "default"),
     region |-> EnvGet(env, "AWS_DEFAULT_REGION", EnvGet(env, "AWS_REGION", "us-east-1"))]

\* a main that keeps the exception of initialize in a try/except of its own
OnError_continue(op, guarded) ==
    IF guarded \/ op = "initialize" THEN "continue" ELSE "unwind"

\* What main does with an exception of an awaited request: a guarded await
\* reports it and goes on, any other leaves both `async with` blocks and
\* reaches the outer except.
OnError(op, guarded) == IF guarded THEN "continue" ELSE "unwind"

ClientStart ==
    /\ ckind \in DirectKinds
    /\ cphase = "start"
    /\ transport = "unopened"
    /\ session = "unopened"
    /\ initialized = FALSE
    /\ ip = 1
    /\ inflight = {}
    /\ reqLog = <<>>
    /\ responses = <<>>
    /\ creported = FALSE
    /\ shown = NoShown
    /\ attempts = 0
    /\ cerror = "none"

\* the client is started in an environment without AWS variables
ClientInit ==
    /\ ClientStart
    /\ environ = NoEnv

\* subprocess client: the server script does not exist, main returns early
ServerFileMissing ==
    /\ UNCHANGED <<srvVars, multiVars, cfgVars>>
    /\ UNCHANGED <<environ, shown, attempts, cerror>>
    /\ ckind = "subprocess"
    /\ cphase = "start"
    /\ cphase' = "returned"
    /\ UNCHANGED <<ckind, transport, session, initialized, ip, inflight,
                   reqLog, responses, creported>>

\* async with stdio_client(...) / streamablehttp_client(...) as streams
OpenTransport ==
    /\ UNCHANGED <<multiVars, cfgVars>>
    /\ ckind \in DirectKinds
    /\ cphase = "start"
    /\ transport' = "open"
    /\ cphase' = "connected"
    /\ attempts' = attempts + 1
    /\ shown' = IF ckind = "subprocess" THEN DisplayedConfig(environ) ELSE shown
    /\ IF ckind = "subprocess"
       THEN /\ srvState' = "starting"
            /\ srvEnv' = environ
       ELSE UNCHANGED <<srvState, srvEnv>>
    /\ UNCHANGED <<exitCode, exitCause, sessionOpen, pending, lastReq, firstList, lastCall,
                   lastResp, failedSeen, handled, s3Buckets, s3Body, ddbItem, skind, output,
                   awsClients>>
    /\ UNCHANGED <<environ, cerror>>
    /\ UNCHANGED <<ckind, session, initialized, ip, inflight, reqLog, responses, creported>>

\* entering the transport context raises: the outer except reports it
OpenTransportFails ==
    /\ UNCHANGED <<srvVars, multiVars, cfgVars>>
    /\ ckind \in DirectKinds
    /\ cphase = "start"
    /\ attempts' = attempts + 1
    /\ shown' = IF ckind = "subprocess" THEN DisplayedConfig(environ) ELSE shown
    /\ cerror' = "open"
    /\ UNCHANGED environ
    /\ creported' = TRUE
    /\ cphase' = "returned"
    /\ UNCHANGED <<ckind, transport, session, initialized, ip, inflight, reqLog, responses>>

\* async with ClientSession(...) as session
EnterSession ==
    /\ UNCHANGED <<srvVars, multiVars, cfgVars>>
    /\ UNCHANGED <<environ, shown, attempts, cerror>>
    /\ cphase = "connected"
    /\ session' = "open"
    /\ cphase' = "body"
    /\ UNCHANGED <<ckind, transport, initialized, ip, inflight, reqLog, responses, creported>>

\* main reaches the next request of its program and sends it
IssueRequest ==
    /\ UNCHANGED <<srvVars, multiVars, cfgVars>>
    /\ UNCHANGED <<environ, shown, attempts, cerror>>
    /\ cphase = "body"
    /\ ip <= Len(Program(ckind))
    /\ ~Suspended(inflight)
    /\ LET id == Len(reqLog) + 1
           st == Program(ckind)[ip]
       IN /\ inflight' = inflight \cup {[id |-> id, op |-> st.op, guarded |-> st.guarded]}
          /\ reqLog' = Append(reqLog, [id |-> id, op |-> st.op,
                                        transport |-> transport, session |-> session,
                                        initialized |-> initialized])
    /\ ip' = ip + 1
    /\ UNCHANGED <<ckind, cphase, transport, session, initialized, responses, creported>>

\* the awaited request completes with a result
ReceiveResult(r) ==
    /\ UNCHANGED <<srvVars, multiVars, cfgVars>>
    /\ UNCHANGED <<environ, shown, attempts, cerror>>
    /\ cphase = "body"
    /\ r \in inflight
    /\ inflight' = inflight \ {r}
    /\ responses' = Append(responses, [id |-> r.id, outcome |-> "result"])
    /\ initialized' = (initialized \/ r.op = "initialize")
    /\ UNCHANGED <<ckind, cphase, transport, session, ip, reqLog, creported>>

\* the awaited request raises (error response, connection lost, or the result
\* cannot be read): a guarded call reports it and main goes on, otherwise the
\* exception leaves both `async with` blocks and the outer except reports it
ReceiveError(r) ==
    /\ UNCHANGED <<srvVars, multiVars, cfgVars>>
    /\ UNCHANGED <<environ, shown, attempts>>
    /\ cphase = "body"
    /\ r \in inflight
    /\ inflight' = inflight \ {r}
    /\ responses' = Append(responses, [id |-> r.id, outcome |-> "error"])
    /\ IF OnError(r.op, r.guarded) = "continue"
       THEN UNCHANGED <<cphase, transport, session, creported, cerror>>
       ELSE /\ cerror' = r.op
            /\ session' = AfterWith("exception")
            /\ transport' = AfterWith("exception")
            /\ creported' = TRUE
            /\ cphase' = "returned"
    /\ UNCHANGED <<ckind, initialized, ip, reqLog>>

\* the body ends: both `async with` blocks are left and main returns
FinishBody ==
    /\ UNCHANGED <<srvVars, multiVars, cfgVars>>
    /\ UNCHANGED <<environ, shown, attempts, cerror>>
    /\ cphase = "body"
    /\ ip > Len(Program(ckind))
    /\ ~Suspended(inflight)
    /\ session' = AfterWith("normal")
    /\ transport' = AfterWith("normal")
    /\ cphase' = "returned"
    /\ UNCHANGED <<ckind, initialized, ip, inflight, reqLog, responses, creported>>

ClientNext ==
    \/ ServerFileMissing
    \/ OpenTransport
    \/ OpenTransportFails
    \/ EnterSession
    \/ IssueRequest
    \/ \E r \in inflight : ReceiveResult(r)
    \/ \E r \in inflight : ReceiveError(r)
    \/ FinishBody

----------------------------------------------------------------------------
(* remote-strands-multi/mcp_client_strands.py: MultiMCPAgent *)

\* the servers of MCP_SERVERS, in dict order
ServerOrder == <<"s1", "s2">>

Servers == {ServerOrder[i] : i \in DOMAIN ServerOrder}

\* a server's config: its "enabled" entry ("absent" when the key is missing)
\* and whether it has the 'url' and 'description' entries connect_servers reads
Config(enabled, complete) == [enabled |-> enabled, complete |-> complete]

Configs == {Config("True", TRUE), Config("False", TRUE), Config("absent", TRUE),
            Config("True", FALSE)}

\* config.get("enabled", False)
GetEnabled_default_false(config) == config.enabled = "True"

\* config.get("enabled", True)
GetEnabled(config) == config.enabled # "False"

\* what each server's list_tools_sync returns
MTool(name, server) == [name |-> name, server |-> server]

ServerTools(srv) ==
    IF srv = "s1" THEN <<MTool("search", "s1"), MTool("read", "s1")>>
    ELSE <<MTool("search", "s2")>>

NoAgent == [created |-> FALSE, tools |-> <<>>]

\* MultiMCPAgent.__init__
MultiInit ==
    /\ server_configs \in [Servers -> Configs]
    /\ mcp_clients = <<>>
    /\ all_tools = <<>>
    /\ agent = NoAgent
    /\ msess = [srv \in Servers |-> "closed"]
    /\ mop = "none"
    /\ mstep = "none"
    /\ midx = 0
    /\ mlast = "none"
    /\ mfound = [srv \in Servers |-> "none"]
    /\ mcalls = 0
    /\ mhist = [connect |-> 0, found |-> 0, created |-> 0, invoked |-> 0,
                last |-> "none", opened |-> {}]

\* self.mcp_clients[server_name] = {...}: a new key goes last, an existing
\* key keeps its place
DictSet(keys, k) ==
    IF \E i \in DOMAIN keys : keys[i] = k THEN keys ELSE Append(keys, k)

RECURSIVE ConnectLoop(_, _)
\* the for loop of connect_servers from position i on
ConnectLoop(clients, i) ==
    IF i > Len(ServerOrder) THEN clients
    ELSE LET srv == ServerOrder[i]
             config == server_configs[srv]
         IN IF ~GetEnabled(config) THEN ConnectLoop(clients, i + 1)
            ELSE IF ~config.complete THEN ConnectLoop(clients, i + 1)
            ELSE ConnectLoop(DictSet(clients, srv), i + 1)

\* the history when method m is called as call number n
Called(m) == [mhist EXCEPT !.last = m, !.opened = {}]

\* the history once an event has happened in call number n: its first
\* occurrence is kept
First(h, event, n) == IF h[event] = 0 THEN [h EXCEPT ![event] = n] ELSE h

\* a method is called on the agent
CanCall ==
    /\ ckind = "multi"
    /\ mop = "none"
    /\ mcalls < MaxCalls

\* MultiMCPAgent.connect_servers
connect_servers ==
    /\ UNCHANGED <<srvVars, cliVars, cfgVars>>
    /\ CanCall
    /\ mcp_clients' = ConnectLoop(mcp_clients, 1)
    /\ mhist' = First(Called("connect_servers"), "connect", mcalls + 1)
    /\ mlast' = "returned"
    /\ mcalls' = mcalls + 1
    /\ UNCHANGED <<mfound, server_configs, all_tools, agent, msess, mop, mstep, midx>>

\* MultiMCPAgent.discover_tools is called
discover_tools ==
    /\ UNCHANGED <<srvVars, cliVars, cfgVars>>
    /\ CanCall
    /\ mhist' = Called("discover_tools")
    /\ mop' = "discover"
    /\ mstep' = "enter"
    /\ midx' = 1
    /\ mcalls' = mcalls + 1
    /\ UNCHANGED <<mfound, server_configs, mcp_clients, all_tools, agent, msess, mlast>>

\* discover_tools: `with client_info["client"] as mcp_client` is entered
DiscoverEnter ==
    /\ UNCHANGED <<srvVars, cliVars, cfgVars>>
    /\ mop = "discover" /\ mstep = "enter"
    /\ midx <= Len(mcp_clients)
    /\ msess' = [msess EXCEPT ![mcp_clients[midx]] = "open"]
    /\ mhist' = [mhist EXCEPT !.opened = @ \cup {mcp_clients[midx]}]
    /\ mstep' = "list"
    /\ UNCHANGED <<mfound, server_configs, mcp_clients, all_tools, agent, mop, midx, mlast, mcalls>>

\* discover_tools: entering the client raises; except, continue
DiscoverEnterFails ==
    /\ UNCHANGED <<srvVars, cliVars, cfgVars>>
    /\ UNCHANGED mhist
    /\ mop = "discover" /\ mstep = "enter"
    /\ midx <= Len(mcp_clients)
    /\ midx' = midx + 1
    /\ mfound' = [mfound EXCEPT ![mcp_clients[midx]] = "enter raised"]
    /\ UNCHANGED <<server_configs, mcp_clients, all_tools, agent, msess, mop, mstep,
                   mlast, mcalls>>

\* discover_tools: list_tools_sync returns, the tools are printed and added
\* to all_tools, the with block is left
DiscoverList ==
    /\ UNCHANGED <<srvVars, cliVars, cfgVars>>
    /\ mop = "discover" /\ mstep = "list"
    /\ all_tools' = all_tools \o ServerTools(mcp_clients[midx])
    /\ mhist' = IF ServerTools(mcp_clients[midx]) # <<>>
                THEN First(mhist, "found", mcalls) ELSE mhist
    /\ msess' = [msess EXCEPT ![mcp_clients[midx]] = AfterWith("normal")]
    /\ mstep' = "enter"
    /\ midx' = midx + 1
    /\ mfound' = [mfound EXCEPT ![mcp_clients[midx]] = "listed"]
    /\ UNCHANGED <<server_configs, mcp_clients, agent, mop, mlast, mcalls>>

\* discover_tools: list_tools_sync (or printing a tool) raises; the with
\* block is left by the exception; except, continue
DiscoverListFails ==
    /\ UNCHANGED <<srvVars, cliVars, cfgVars>>
    /\ UNCHANGED mhist
    /\ mop = "discover" /\ mstep = "list"
    /\ msess' = [msess EXCEPT ![mcp_clients[midx]] = AfterWith("exception")]
    /\ mstep' = "enter"
    /\ midx' = midx + 1
    /\ mfound' = [mfound EXCEPT ![mcp_clients[midx]] = "list raised"]
    /\ UNCHANGED <<server_configs, mcp_clients, all_tools, agent, mop, mlast, mcalls>>

\* discover_tools: the loop is over, the method returns
DiscoverReturn ==
    /\ UNCHANGED <<srvVars, cliVars, cfgVars>>
    /\ UNCHANGED mhist
    /\ mop = "discover" /\ mstep = "enter"
    /\ midx > Len(mcp_clients)
    /\ mop' = "none"
    /\ mstep' = "none"
    /\ mlast' = "returned"
    /\ UNCHANGED <<mfound, server_configs, mcp_clients, all_tools, agent, msess, midx, mcalls>>

\* create_agent without the check of all_tools
create_agent_unchecked ==
    /\ UNCHANGED <<srvVars, cliVars, cfgVars>>
    /\ CanCall
    /\ mcalls' = mcalls + 1
    /\ agent' = [created |-> TRUE, tools |-> all_tools]
    /\ mhist' = First(Called("create_agent"), "created", mcalls + 1)
    /\ mlast' = "returned"
    /\ UNCHANGED <<mfound, server_configs, mcp_clients, all_tools, msess, mop, mstep, midx>>

\* MultiMCPAgent.create_agent
create_agent ==
    /\ UNCHANGED <<srvVars, cliVars, cfgVars>>
    /\ CanCall
    /\ mcalls' = mcalls + 1
    /\ IF all_tools = <<>>
       THEN /\ mlast' = "ValueError"
            /\ mhist' = Called("create_agent")
            /\ UNCHANGED agent
       ELSE /\ agent' = [created |-> TRUE, tools |-> all_tools]
            /\ mhist' = First(Called("create_agent"), "created", mcalls + 1)
            /\ mlast' = "returned"
    /\ UNCHANGED <<mfound, server_configs, mcp_clients, all_tools, msess, mop, mstep, midx>>

\* MultiMCPAgent.query is called
query ==
    /\ UNCHANGED <<srvVars, cliVars, cfgVars>>
    /\ CanCall
    /\ mcalls' = mcalls + 1
    /\ mhist' = Called("query")
    /\ IF ~agent.created
       THEN /\ mlast' = "ValueError"
            /\ UNCHANGED <<mop, mstep, midx>>
       ELSE IF mcp_clients = <<>>
       THEN /\ mlast' = "returned None"
            /\ UNCHANGED <<mop, mstep, midx>>
       ELSE /\ mop' = "query"
            /\ mstep' = "enter"
            /\ midx' = 1
            /\ UNCHANGED mlast
    /\ UNCHANGED <<mfound, server_configs, mcp_clients, all_tools, agent, msess>>

\* query: `with client_info["client"]` is entered for the first client
QueryEnter ==
    /\ UNCHANGED <<srvVars, cliVars, cfgVars>>
    /\ mop = "query" /\ mstep = "enter"
    /\ msess' = [msess EXCEPT ![mcp_clients[midx]] = "open"]
    /\ mhist' = First([mhist EXCEPT !.opened = @ \cup {mcp_clients[midx]}],
                      "invoked", mcalls)
    /\ mstep' = "agent"
    /\ UNCHANGED <<mfound, server_configs, mcp_clients, all_tools, agent, mop, midx, mlast, mcalls>>

\* query: entering the client raises, the exception leaves query
QueryEnterFails ==
    /\ UNCHANGED <<srvVars, cliVars, cfgVars>>
    /\ UNCHANGED mhist
    /\ mop = "query" /\ mstep = "enter"
    /\ mop' = "none"
    /\ mstep' = "none"
    /\ mlast' = "enter raised"
    /\ UNCHANGED <<mfound, server_configs, mcp_clients, all_tools, agent, msess, midx, mcalls>>

\* query: self.agent(question) returns, `return` leaves the with block
QueryAgentReturns ==
    /\ UNCHANGED <<srvVars, cliVars, cfgVars>>
    /\ UNCHANGED mhist
    /\ mop = "query" /\ mstep = "agent"
    /\ msess' = [msess EXCEPT ![mcp_clients[midx]] = AfterWith("normal")]
    /\ mop' = "none"
    /\ mstep' = "none"
    /\ mlast' = "returned"
    /\ UNCHANGED <<mfound, server_configs, mcp_clients, all_tools, agent, midx, mcalls>>

\* query: self.agent(question) raises, the exception leaves the with block
\* and query
QueryAgentRaises ==
    /\ UNCHANGED <<srvVars, cliVars, cfgVars>>
    /\ UNCHANGED mhist
    /\ mop = "query" /\ mstep = "agent"
    /\ msess' = [msess EXCEPT ![mcp_clients[midx]] = AfterWith("exception")]
    /\ mop' = "none"
    /\ mstep' = "none"
    /\ mlast' = "agent raised"
    /\ UNCHANGED <<mfound, server_configs, mcp_clients, all_tools, agent, midx, mcalls>>

MultiNext ==
    \/ connect_servers
    \/ discover_tools
    \/ DiscoverEnter
    \/ DiscoverEnterFails
    \/ DiscoverList
    \/ DiscoverListFails
    \/ DiscoverReturn
    \/ create_agent
    \/ query
    \/ QueryEnter
    \/ QueryEnterFails
    \/ QueryAgentReturns
    \/ QueryAgentRaises

----------------------------------------------------------------------------
(* The client configured from a file and the environment                   *)
(* (remote-strands-multi/mcp_client_strands_ext_config.py)                 *)

MaxRuns == 2

\* a dict has no such key
NoKey == "<no key>"

\* the empty dict, as a bedrock configuration
NoDict == [model_id |-> NoKey, region_name |-> NoKey, profile_name |-> NoKey,
           temperature |-> NoKey, max_tokens |-> NoKey]

\* DEFAULT_MCP_SERVERS as the module defines it (the server names)
InitialServers == <<"aws-knowledge">>

\* DEFAULT_BEDROCK_CONFIG as the module defines it
InitialBedrock ==
    [model_id |-> "anthropic.claude-3-5-sonnet-20241022-v2:0", region_name |-> "us-east-1",
     profile_name |-> NoKey, temperature |-> "0.7", max_tokens |-> "4096"]

\* a Python value as json.load or load_config produces it.  members: what
\* the operator "in" finds in it (the keys of a dict, the items of a list).
\* A value stored under a key is a reference: to one of the module-level
\* default dicts (ref = TRUE) or to an object of its own (val)
PyValue(kind, members, servers, bedrock) ==
    [kind |-> kind, members |-> members, mcp_servers |-> servers, bedrock |-> bedrock]

Own(val) == [ref |-> FALSE, val |-> val]

NoConfig == PyValue("none", {}, Own(<<>>), Own(NoDict))

\* {"mcp_servers": DEFAULT_MCP_SERVERS, "bedrock": DEFAULT_BEDROCK_CONFIG}
DefaultConfig ==
    PyValue("dict", {"mcp_servers", "bedrock"},
            [ref |-> TRUE, val |-> <<>>], [ref |-> TRUE, val |-> NoDict])

FileServers == <<"file-server">>

FullBedrock ==
    [model_id |-> "m-file", region_name |-> "ap-south-1", profile_name |-> "file-profile",
     temperature |-> "0.2", max_tokens |-> "1024"]

\* the texts a configuration file may hold
ConfigTexts == {"broken", "number", "list", "no-bedrock", "no-servers",
                "full", "minimal", "no-model"}

\* json.load(f): the value, or the exception it raises
json_load(text) ==
    CASE text = "broken" -> [raised |-> "JSONDecodeError", value |-> NoConfig]
      [] text = "number" -> [raised |-> "none", value |-> PyValue("number", {}, Own(<<>>), Own(NoDict))]
      [] text = "list" ->
            [raised |-> "none",
             value |-> PyValue("list", {"mcp_servers", "bedrock"}, Own(<<>>), Own(NoDict))]
      [] text = "no-bedrock" ->
            [raised |-> "none",
             value |-> PyValue("dict", {"mcp_servers"}, Own(FileServers), Own(NoDict))]
      [] text = "no-servers" ->
            [raised |-> "none",
             value |-> PyValue("dict", {"bedrock"}, Own(<<>>), Own(FullBedrock))]
      [] text = "full" ->
            [raised |-> "none",
             value |-> PyValue("dict", {"mcp_servers", "bedrock"},
                               Own(FileServers), Own(FullBedrock))]
      [] text = "minimal" ->
            [raised |-> "none",
             value |-> PyValue("dict", {"mcp_servers", "bedrock"}, Own(FileServers),
                               Own([NoDict EXCEPT !.model_id = "m-file"]))]
      [] text = "no-model" ->
            [raised |-> "none",
             value |-> PyValue("dict", {"mcp_servers", "bedrock"}, Own(FileServers),
                               Own([NoDict EXCEPT !.region_name = "ap-south-1"]))]

NoFile == [exists |-> FALSE, readable |-> FALSE, text |-> ""]

\* the file at config_path: missing, present and not readable, or readable
ConfigFiles ==
    {NoFile, [exists |-> TRUE, readable |-> FALSE, text |-> ""]}
    \cup {[exists |-> TRUE, readable |-> TRUE, text |-> t] : t \in ConfigTexts}

\* load_config(config_path), for the file at config_path
load_config(file) ==
    IF ~file.exists THEN DefaultConfig
    ELSE IF ~file.readable THEN DefaultConfig              \* open raises: except Exception
    ELSE LET r == json_load(file.text)
         IN  IF r.raised # "none" THEN DefaultConfig       \* except json.JSONDecodeError
             ELSE IF r.value.kind = "number" THEN DefaultConfig  \* "in" raises TypeError
             ELSE IF "mcp_servers" \notin r.value.members THEN DefaultConfig  \* ValueError
             ELSE IF "bedrock" \notin r.value.members THEN DefaultConfig      \* ValueError
             ELSE r.value

\* the variables merge_config_with_env reads
ConfigEnvs == [AWS_REGION : {Unset, "", "eu-west-1"},
               BEDROCK_MODEL : {Unset, "", "m-env"},
               AWS_PROFILE : {Unset, "", "dev"}]

NoConfigEnv == [AWS_REGION |-> Unset, BEDROCK_MODEL |-> Unset, AWS_PROFILE |-> Unset]

\* if os.getenv(name): the variable is set and not empty
Truthy(env, name) == env[name] # Unset /\ env[name] # ""

\* the dict config["bedrock"] refers to
BedrockOf(c) == IF c.bedrock.ref THEN DEFAULT_BEDROCK_CONFIG ELSE c.bedrock.val

\* the dict config["mcp_servers"] refers to
ServersOf(c) == IF c.mcp_servers.ref THEN DEFAULT_MCP_SERVERS ELSE c.mcp_servers.val

merge_config_with_env_file_first(bedrock_config, env) ==
    [bedrock_config EXCEPT
        !.region_name = IF @ = NoKey /\ Truthy(env, "AWS_REGION") THEN env.AWS_REGION ELSE @,
        !.model_id = IF @ = NoKey /\ Truthy(env, "BEDROCK_MODEL") THEN env.BEDROCK_MODEL ELSE @,
        !.profile_name = IF @ = NoKey /\ Truthy(env, "AWS_PROFILE") THEN env.AWS_PROFILE ELSE @]

\* merge_config_with_env: what the dict bedrock_config holds when it returns
merge_config_with_env(bedrock_config, env) ==
    [bedrock_config EXCEPT
        !.region_name = IF Truthy(env, "AWS_REGION") THEN env.AWS_REGION ELSE @,
        !.model_id = IF Truthy(env, "BEDROCK_MODEL") THEN env.BEDROCK_MODEL ELSE @,
        !.profile_name = IF Truthy(env, "AWS_PROFILE") THEN env.AWS_PROFILE ELSE @]

\* bedrock_model_kwargs of create_agent: model_id is not among them
bedrock_model_kwargs(bedrock_config) ==
    [model_id |-> NoKey,
     region_name |-> IF bedrock_config.region_name = NoKey THEN "us-east-1"
                     ELSE bedrock_config.region_name,
     temperature |-> bedrock_config.temperature,
     max_tokens |-> bedrock_config.max_tokens,
     profile_name |-> bedrock_config.profile_name]

\* no BedrockModel has been constructed
NoModel == [NoDict EXCEPT !.region_name = ""]

NoMultiAgent == [constructed |-> FALSE, mcp_clients |-> 0, all_tools |-> 0, model |-> NoModel]

NothingPrinted == [summary |-> "", final |-> ""]

ConfigInit ==
    /\ os_environ \in ConfigEnvs
    /\ DEFAULT_MCP_SERVERS = InitialServers
    /\ DEFAULT_BEDROCK_CONFIG = InitialBedrock
    /\ config_file = NoFile
    /\ the_config = NoConfig
    /\ multi_agent = NoMultiAgent
    /\ printed = NothingPrinted
    /\ rstep = "idle"
    /\ runs = 0

\* run_comprehensive_tests is called
run_comprehensive_tests ==
    /\ rstep \in {"idle", "returned", "raised", "done"}
    /\ runs < MaxRuns
    /\ runs' = runs + 1
    /\ rstep' = "start"
    /\ the_config' = NoConfig
    /\ config_file' = NoFile
    /\ multi_agent' = NoMultiAgent
    /\ printed' = NothingPrinted
    /\ UNCHANGED <<os_environ, DEFAULT_MCP_SERVERS, DEFAULT_BEDROCK_CONFIG>>
    /\ UNCHANGED <<srvVars, cliVars, multiVars>>

\* config = load_config(config_path)
RunLoadConfig(file) ==
    /\ rstep = "start"
    /\ config_file' = file
    /\ the_config' = load_config(file)
    /\ rstep' = "loaded"
    /\ UNCHANGED <<os_environ, DEFAULT_MCP_SERVERS, DEFAULT_BEDROCK_CONFIG, multi_agent,
                   printed, runs>>
    /\ UNCHANGED <<srvVars, cliVars, multiVars>>

\* config = merge_config_with_env(config): the dict config["bedrock"] refers
\* to is updated in place; a config without get raises AttributeError
RunMerge ==
    /\ rstep = "loaded"
    /\ IF the_config.kind # "dict"
       THEN /\ rstep' = "raised"
            /\ UNCHANGED <<the_config, DEFAULT_BEDROCK_CONFIG>>
       ELSE /\ rstep' = "merged"
            /\ IF the_config.bedrock.ref
               THEN /\ DEFAULT_BEDROCK_CONFIG' =
                          merge_config_with_env(DEFAULT_BEDROCK_CONFIG, os_environ)
                    /\ UNCHANGED the_config
               ELSE /\ the_config' = [the_config EXCEPT
                          !.bedrock.val = merge_config_with_env(@, os_environ)]
                    /\ UNCHANGED DEFAULT_BEDROCK_CONFIG
    /\ UNCHANGED <<os_environ, DEFAULT_MCP_SERVERS, config_file, multi_agent, printed, runs>>
    /\ UNCHANGED <<srvVars, cliVars, multiVars>>

\* print_config_summary(config): bedrock['model_id'] raises KeyError when
\* the dict has no such key
RunPrintSummary ==
    /\ rstep = "merged"
    /\ IF BedrockOf(the_config).model_id = NoKey
       THEN /\ rstep' = "raised"
            /\ UNCHANGED printed
       ELSE /\ rstep' = "summarised"
            /\ printed' = [printed EXCEPT !.summary = BedrockOf(the_config).model_id]
    /\ UNCHANGED <<os_environ, DEFAULT_MCP_SERVERS, DEFAULT_BEDROCK_CONFIG, config_file,
                   the_config, multi_agent, runs>>
    /\ UNCHANGED <<srvVars, cliVars, multiVars>>

\* multi_agent = MultiMCPAgent(...); multi_agent.connect_servers(), which
\* connects n servers; with none, run_comprehensive_tests returns
RunConnect(n) ==
    /\ rstep = "summarised"
    /\ multi_agent' = [NoMultiAgent EXCEPT !.constructed = TRUE, !.mcp_clients = n]
    /\ rstep' = IF n = 0 THEN "returned" ELSE "connected"
    /\ UNCHANGED <<os_environ, DEFAULT_MCP_SERVERS, DEFAULT_BEDROCK_CONFIG, config_file,
                   the_config, printed, runs>>
    /\ UNCHANGED <<srvVars, cliVars, multiVars>>

\* multi_agent.discover_tools(), which finds n tools
RunDiscover(n) ==
    /\ rstep = "connected"
    /\ multi_agent' = [multi_agent EXCEPT !.all_tools = n]
    /\ rstep' = "discovered"
    /\ UNCHANGED <<os_environ, DEFAULT_MCP_SERVERS, DEFAULT_BEDROCK_CONFIG, config_file,
                   the_config, printed, runs>>
    /\ UNCHANGED <<srvVars, cliVars, multiVars>>

\* multi_agent.create_agent(): BedrockModel(**bedrock_model_kwargs), from
\* self.bedrock_config, which is the dict config["bedrock"] refers to
RunCreateAgent ==
    /\ rstep = "discovered"
    /\ IF multi_agent.all_tools = 0
       THEN /\ rstep' = "raised"
            /\ UNCHANGED multi_agent
       ELSE /\ rstep' = "created"
            /\ multi_agent' = [multi_agent EXCEPT
                                  !.model = bedrock_model_kwargs(BedrockOf(the_config))]
    /\ UNCHANGED <<os_environ, DEFAULT_MCP_SERVERS, DEFAULT_BEDROCK_CONFIG, config_file,
                   the_config, printed, runs>>
    /\ UNCHANGED <<srvVars, cliVars, multiVars>>

\* the test loop, which catches what a query raises, and the final summary
RunTests ==
    /\ rstep = "created"
    /\ printed' = [printed EXCEPT !.final = BedrockOf(the_config).model_id]
    /\ rstep' = "done"
    /\ UNCHANGED <<os_environ, DEFAULT_MCP_SERVERS, DEFAULT_BEDROCK_CONFIG, config_file,
                   the_config, multi_agent, runs>>
    /\ UNCHANGED <<srvVars, cliVars, multiVars>>

ConfigNext ==
    \/ run_comprehensive_tests
    \/ \E file \in ConfigFiles : RunLoadConfig(file)
    \/ RunMerge
    \/ RunPrintSummary
    \/ \E n \in 0..1 : RunConnect(n)
    \/ \E n \in 0..1 : RunDiscover(n)
    \/ RunCreateAgent
    \/ RunTests

----------------------------------------------------------------------------
(* Specifications *)

\* a component that takes no step in a specification stays in this state
ServerIdle ==
    /\ ServerInit
    /\ s3Buckets = <<>>
    /\ s3Body = NoObject
    /\ ddbItem = NoItem

ClientIdle ==
    /\ ClientInit
    /\ ckind = "subprocess"

MultiIdle ==
    /\ MultiInit
    /\ server_configs = [srv \in Servers |-> Config("True", TRUE)]

ConfigIdle ==
    /\ ConfigInit
    /\ os_environ = NoConfigEnv

\* the client scripts: a direct client, or the multi-server agent
AnyClientInit ==
    \/ ClientInit /\ MultiIdle
    \/ /\ ckind = "multi"
       /\ cphase = "start"
       /\ transport = "unopened"
       /\ session = "unopened"
       /\ initialized = FALSE
       /\ ip = 1
       /\ inflight = {}
       /\ reqLog = <<>>
       /\ responses = <<>>
       /\ creported = FALSE
       /\ shown = NoShown
       /\ attempts = 0
       /\ cerror = "none"
       /\ environ = NoEnv
       /\ MultiInit

ClientsInit == ServerIdle /\ AnyClientInit /\ ConfigIdle

Init == ServerInit /\ ClientIdle /\ MultiIdle /\ ConfigIdle

Next == ServerNext

\* the tool server, serving the requests of one session
Spec == Init /\ [][Next]_vars

\* one run of a client script
ClientSpec == ClientsInit /\ [][ClientNext \/ MultiNext]_vars

\* python <script>: one of the server scripts of the repository
ServersInit ==
    /\ ProcessInit
    /\ skind \in StdioKinds \cup FastKinds
    /\ srvState = "starting"
    /\ srvEnv \in {NoEnv, [NoEnv EXCEPT !.AWS_DEFAULT_REGION = "eu-west-1"]}
    /\ ClientIdle
    /\ MultiIdle
    /\ ConfigIdle

\* the server scripts, each serving the requests of one session
ServersSpec == ServersInit /\ [][ServerNext \/ FastNext]_vars

\* the subprocess client in an environment with AWS variables, and the stdio
\* server script it starts
LaunchInit ==
    /\ ProcessInit
    /\ skind \in {"lowlevel", "fastmcp"}
    /\ srvState = "unspawned"
    /\ srvEnv = NoEnv
    /\ s3Buckets = <<>>
    /\ s3Body = NoObject
    /\ ddbItem = NoItem
    /\ ClientStart
    /\ ckind = "subprocess"
    /\ environ \in Envs
    /\ MultiIdle
    /\ ConfigIdle

LaunchNext ==
    \/ ClientNext
    \/ InitClientsOk
    \/ InitClientsFail
    \/ FastInitOk
    \/ FastInitFail

LaunchSpec == LaunchInit /\ [][LaunchNext]_vars

\* python mcp_client_strands_ext_config.py, and later calls of
\* run_comprehensive_tests in the same process
ConfigsInit == ServerIdle /\ ClientIdle /\ MultiIdle /\ ConfigInit

ConfigSpec == ConfigsInit /\ [][ConfigNext]_vars

\* the tool server; the event loop runs a request it has read to completion
FairSpec ==
    /\ Spec
    /\ WF_vars(HandleListTools)
    /\ WF_vars(\E fault \in Faults : HandleCallTool(fault))

----------------------------------------------------------------------------
(* Properties of the tool server *)

Range(f) == {f[i] : i \in DOMAIN f}

\* the names the server registers
RegisteredNames == {t.name : t \in Range(list_tools)}

\* the last request handled was call_tool
CalledTool == lastReq.kind = "call_tool"

\* the last call_tool omitted a parameter its tool's schema requires
OmitsRequired ==
    /\ CalledTool
    /\ \E t \in Range(list_tools) :
          /\ t.name = lastReq.name
          /\ \E q \in Range(t.required) : q \notin DOMAIN lastReq.arguments

\* C1: a call_tool whose name is not a registered tool leaves call_tool as an
\* unknown-tool error (no content is returned), no handler branch runs and no
\* S3 or DynamoDB request is made.
C1_UnknownToolFails ==
    (CalledTool /\ lastReq.name \notin RegisteredNames) =>
        /\ lastCall.outcome.kind = "raise"
        /\ lastCall.outcome.exc = UnknownToolError(lastReq.name)
        /\ lastCall.outcome.content = <<>>
        /\ lastCall.handlers = <<>>
        /\ lastCall.backend = <<>>

C1_Witness ==
    /\ CalledTool
    /\ lastReq.name = "put_s3_object"
    /\ lastCall.outcome.kind = "raise"
    /\ handled > 0

\* C2: a call_tool to get_s3_object or query_dynamodb whose arguments omit a
\* required parameter fails with an error (a KeyError naming a missing
\* parameter) instead of returning content, and makes no backend request.
C2_MissingArgumentFails ==
    OmitsRequired =>
        /\ lastCall.outcome.kind = "raise"
        /\ lastCall.outcome.exc.type = "KeyError"
        /\ \E q \in Params \ DOMAIN lastReq.arguments :
              lastCall.outcome.exc = KeyError(q)
        /\ lastCall.backend = <<>>

C2_Witness ==
    /\ OmitsRequired
    /\ lastReq.name = "get_s3_object"
    /\ "bucket" \in DOMAIN lastReq.arguments
    /\ lastCall.outcome.exc = KeyError("key")

\* C3 (as claimed): whenever the backend operation of a tool call raised, the
\* call returned a tool result with isError = true and a non-empty error
\* text, and no exception left call_tool.
C3_BackendFailureIsErrorResult ==
    (CalledTool /\ lastCall.failed) =>
        /\ lastCall.outcome.kind = "return"
        /\ lastResp.kind = "result"
        /\ lastResp.isError
        /\ Len(lastResp.content) = 1
        /\ lastResp.content[1] # <<>>

\* C4 (as claimed): a result of get_s3_object or query_dynamodb is marked
\* isError = true exactly when its backend request failed, so the mark alone
\* tells a failed call from a successful one.
C4_ErrorMarkTellsFailure ==
    (CalledTool /\ lastReq.name \in {"get_s3_object", "query_dynamodb"}
                /\ lastCall.backend # <<>>) =>
        (lastResp.isError <=> lastCall.failed)

\* C5: a failing tool call never ends the server process (after a failure the
\* process has exited only because the client closed the session or the
\* transport broke), and every request read after a failure is answered
\* unless the transport itself breaks.
C5_ServerSurvivesFailedCall ==
    /\ [](failedSeen => exitCause \in {"none", "eof", "fatal"})
    /\ [](failedSeen => (pending = NoReq \/ srvState = "running" \/ exitCause = "fatal"))
    /\ ((failedSeen /\ pending # NoReq) ~> (pending = NoReq \/ exitCause = "fatal"))

C5_Witness ==
    /\ failedSeen
    /\ handled >= 2
    /\ CalledTool
    /\ pending = NoReq
    /\ srvState = "running"
    /\ lastResp.kind = "result"
    /\ ~lastResp.isError
    /\ ~lastCall.failed

\* C9: a call_tool runs at most one handler branch, the one named by the
\* request, makes at most one backend request, and a failed backend request
\* is not repeated.
C9_AtMostOneHandlerAndBackendRequest ==
    CalledTool =>
        /\ Len(lastCall.handlers) <= 1
        /\ \A i \in DOMAIN lastCall.handlers : lastCall.handlers[i] = lastReq.name
        /\ Len(lastCall.backend) <= 1
        /\ (lastCall.failed => Len(lastCall.backend) = 1)

C9_Witness ==
    /\ CalledTool
    /\ lastCall.failed
    /\ lastCall.handlers = <<"list_s3_buckets">>
    /\ lastCall.backend = <<"s3:ListBuckets">>

\* C10: every list_tools response carries list_s3_buckets, get_s3_object,
\* query_dynamodb in this order and equals the first list_tools response of
\* the session, whatever requests were handled before it.
C10_ListToolsStable ==
    lastResp.kind = "tools" =>
        /\ Len(lastResp.tools) = 3
        /\ lastResp.tools[1].name = "list_s3_buckets"
        /\ lastResp.tools[2].name = "get_s3_object"
        /\ lastResp.tools[3].name = "query_dynamodb"
        /\ lastResp = firstList

C10_Witness ==
    /\ lastResp.kind = "tools"
    /\ failedSeen
    /\ handled = 2

\* C11: the names list_tools advertises are exactly the names call_tool
\* dispatches to a handler branch: a call of an advertised name runs that
\* tool's branch and never ends as an unknown-tool error, and a call that ran
\* a handler branch named an advertised tool.
C11_AdvertisedIsDispatched ==
    CalledTool =>
        /\ (lastReq.name \in RegisteredNames <=> lastCall.handlers # <<>>)
        /\ (lastReq.name \in RegisteredNames =>
               /\ lastCall.handlers = <<lastReq.name>>
               /\ lastCall.outcome.exc # UnknownToolError(lastReq.name))

C11_Witness ==
    /\ CalledTool
    /\ lastReq.name = "query_dynamodb"
    /\ lastReq.name \in RegisteredNames
    /\ lastCall.handlers = <<"query_dynamodb">>
    /\ lastCall.outcome.kind = "return"

\* C12: in the stdio servers (mcp_server.py, mcp_server_strands.py run by its
\* main or by test_server_direct.py) every diagnostic line is written to
\* standard error, and whatever is written to standard output is a protocol
\* frame, in every state from the start of the script to its exit.
C12_DiagnosticsOnStderr ==
    skind \in StdioKinds =>
        \A w \in output :
            /\ (w.kind = "diagnostic" => w.stream = "stderr")
            /\ (w.stream = "stdout" => w.kind = "frame")

C12_Witness ==
    /\ skind = "lowlevel"
    /\ srvState = "exited"
    /\ exitCause = "fatal"
    /\ log(<<"ERROR in call_tool: ">>) \in output
    /\ log(<<"list_tools called">>) \in output
    /\ \E w \in output : w.stream = "stdout" /\ w.kind = "frame"
    /\ \E w \in output : w.stream = "stderr" /\ w.text = <<"Traceback">>

\* C13: mcp_server.py and mcp_server_strands.py exit with a non-zero status,
\* having served no request and written no frame, when the construction of
\* the backend clients fails, and with a non-zero status when their run loop
\* raises; they exit with status 0 when the run loop returns at the end of
\* the input, and mcp_server_strands.py also when it is interrupted from the
\* keyboard.
C13_ExitStatus ==
    skind \in {"lowlevel", "fastmcp"} =>
        /\ (srvState = "exited" <=> exitCode # -1)
        /\ (exitCause = "init" =>
               /\ exitCode # 0
               /\ handled = 0
               /\ \A w \in output : w.kind # "frame")
        /\ (exitCause = "fatal" => exitCode # 0)
        /\ (exitCause = "eof" => exitCode = 0)
        /\ ((exitCause = "interrupt" /\ skind = "fastmcp") => exitCode = 0)

C13_Witness ==
    /\ skind = "fastmcp"
    /\ srvState = "exited"
    /\ exitCause = "fatal"
    /\ exitCode = 1
    /\ handled > 0

\* the backend clients a running script holds are the ones its
\* initialisation constructed from the environment
ClientsAsConstructed ==
    awsClients = IF skind = "http"
                 THEN [region |-> EnvGet(srvEnv, "AWS_DEFAULT_REGION", "us-east-1"),
                       profile |-> EnvGet(srvEnv, "AWS_PROFILE", "default")]
                 ELSE [region |-> "us-east-1",
                       profile |-> EnvGet(srvEnv, "AWS_PROFILE", "default")]

----------------------------------------------------------------------------
(* Properties of the FastMCP tool functions *)

\* the last request handled was a call of a tool function of a FastMCP script
FastCalled == skind \in FastKinds /\ CalledTool /\ lastCall # NoCall

\* the literal each tool function's except block starts its message with
ErrorPrefix(name) ==
    CASE name = "list_s3_buckets" -> "Error listing S3 buckets: "
      [] name = "get_s3_object" -> "Error getting S3 object: "
      [] name = "put_s3_object" -> "Error uploading to S3: "
      [] name = "list_dynamodb_tables" -> "Error listing DynamoDB tables: "
      [] name = "query_dynamodb" -> "Error querying DynamoDB: "
      [] name = "put_dynamodb_item" -> "Error putting item to DynamoDB: "

\* the last call returned the error message of its tool function
ReturnedError ==
    /\ lastCall.outcome.kind = "return"
    /\ Len(lastCall.outcome.content[1]) >= 1
    /\ lastCall.outcome.content[1][1] = ErrorPrefix(lastReq.name)

\* the last call made a backend request, and none raised
BackendSucceeded == lastCall.backend # <<>> /\ ~lastCall.failed

\* the last call fetched an object whose body is not UTF-8 text
Undecodable ==
    lastReq.name = "get_s3_object" /\ BackendSucceeded /\ ~s3Body.utf8

\* the last call was given an item_json that json.loads rejects
Unparsable ==
    lastReq.name = "put_dynamodb_item" /\ ~json_loads(lastReq.arguments.item_json).ok

\* C24 as stated: in the FastMCP servers every tool function returns a text
\* for every outcome of its backend request and never raises: the payload or
\* success message when the backend succeeds, an 'Error ...' message when the
\* backend raises.
C24_TextForEveryOutcome ==
    FastCalled =>
        /\ lastCall.outcome.kind = "return"
        /\ lastCall.failed => ReturnedError
        /\ BackendSucceeded => ~ReturnedError

\* C24, amended: every tool function returns a text and never raises; the
\* text is the function's 'Error ...' message exactly when a backend request
\* raised, when the fetched object is not UTF-8 text, or when item_json is
\* not valid JSON, and the payload or success message otherwise.
C24_TextOrErrorMessage ==
    FastCalled =>
        /\ lastCall.outcome.kind = "return"
        /\ ReturnedError <=> (lastCall.failed \/ Undecodable \/ Unparsable)
        /\ lastResp = ToolResult(FALSE, lastCall.outcome.content)

\* get_s3_object fetched an object that is not UTF-8 text: the backend request
\* succeeded and the function returned its error message
C24_Witness ==
    /\ FastCalled
    /\ skind = "fastmcp"
    /\ lastReq.name = "get_s3_object"
    /\ s3Body = BadBody
    /\ BackendSucceeded
    /\ ReturnedError

\* a step in which a FastMCP script handles a put_dynamodb_item call
PutItemStep ==
    /\ skind \in FastKinds
    /\ pending.kind = "call_tool"
    /\ pending.name = "put_dynamodb_item"
    /\ lastReq' = pending
    /\ handled' = handled + 1

\* C25: put_dynamodb_item with an item_json that is not valid JSON returns an
\* error message and writes nothing to the table; the table is written only
\* after the item was parsed, and at most once per call.
C25_NoWriteBeforeParse ==
    /\ []((FastCalled /\ lastReq.name = "put_dynamodb_item") =>
            /\ Unparsable => (ReturnedError /\ lastCall.backend = <<>>)
            /\ lastCall.backend \in {<<>>, <<"dynamodb:PutItem">>}
            /\ lastCall.backend # <<>> => json_loads(lastReq.arguments.item_json).ok)
    /\ [][PutItemStep =>
            /\ ~json_loads(pending.arguments.item_json).ok => ddbItem' = ddbItem
            /\ ddbItem' # ddbItem =>
                  /\ json_loads(pending.arguments.item_json).ok
                  /\ ddbItem' = [present |-> TRUE,
                                 attrs |-> json_loads(pending.arguments.item_json).value.attrs]]_vars

\* a call with a broken item_json was answered with the error message and
\* the table is as it was
C25_Witness ==
    /\ FastCalled
    /\ lastReq.name = "put_dynamodb_item"
    /\ lastReq.arguments.item_json = JsonBroken
    /\ ReturnedError
    /\ lastCall.backend = <<>>
    /\ ddbItem = NoItem

----------------------------------------------------------------------------
(* Properties of the clients *)

\* C6: when a client's enclosing function has returned, by normal completion
\* or by an exception of initialize, list_tools, call_tool or the agent, no
\* transport or session it opened is still open; the same for every session
\* MultiMCPAgent.discover_tools and MultiMCPAgent.query opened, once the
\* method has returned or raised.
C6_ClosedOnEveryExit ==
    /\ (ckind \in DirectKinds /\ cphase = "returned") =>
           (transport # "open" /\ session # "open")
    /\ (ckind = "multi" /\ mop = "none") =>
           \A srv \in Servers : msess[srv] # "open"

C6_Witness ==
    /\ ckind \in DirectKinds
    /\ cphase = "returned"
    /\ creported
    /\ transport = "closed"
    /\ session = "closed"
    /\ Len(responses) = 3
    /\ responses[3].outcome = "error"
    /\ reqLog[3].op = "call_tool"

\* C7: a direct client issues list_tools and call_tool only while the
\* transport and the session are open and after initialize has returned
\* successfully (never before connecting, never after closing).
C7_CallsOnlyWhenReady ==
    \A i \in DOMAIN reqLog :
        reqLog[i].op \in {"list_tools", "call_tool"} =>
            /\ reqLog[i].transport = "open"
            /\ reqLog[i].session = "open"
            /\ reqLog[i].initialized

C7_Witness ==
    /\ ckind \in DirectKinds
    /\ cphase = "returned"
    /\ \E i \in DOMAIN reqLog : reqLog[i].op = "list_tools"
    /\ \E i \in DOMAIN reqLog : reqLog[i].op = "call_tool"

\* C8: in a client session at most one request is outstanding; the i-th
\* response received answers the i-th request issued, so every request that
\* is no longer outstanding has exactly one response, and none is left
\* outstanding when main returns.
C8_OneRequestAtATime ==
    /\ Cardinality(inflight) <= 1
    /\ Len(reqLog) = Len(responses) + Cardinality(inflight)
    /\ \A i \in DOMAIN responses : responses[i].id = reqLog[i].id
    /\ \A r \in inflight : r.id = Len(reqLog)
    /\ (cphase = "returned" => inflight = {})

C8_Witness ==
    /\ ckind = "remote"
    /\ cphase = "returned"
    /\ Len(responses) = Len(reqLog)
    /\ Len(responses) > 3
    /\ responses[3].outcome = "error"
    /\ responses[4].outcome = "result"

\* C14: a direct client opens its transport at most once per run; when
\* opening it or initialize fails, main has returned with the error reported
\* by its outer except, neither the transport nor the session is open, and no
\* list_tools or call_tool was issued; a failed initialize always ends the
\* run this way.
C14_FailedConnectIsFinal ==
    ckind \in DirectKinds =>
        /\ attempts <= 1
        /\ (cerror \in {"open", "initialize"} =>
               /\ cphase = "returned"
               /\ creported
               /\ transport # "open"
               /\ session # "open"
               /\ \A i \in DOMAIN reqLog : reqLog[i].op \notin {"list_tools", "call_tool"})
        /\ \A i \in DOMAIN responses :
               (reqLog[i].op = "initialize" /\ responses[i].outcome = "error") =>
                   cerror = "initialize"

C14_Witness ==
    /\ ckind = "local"
    /\ cerror = "initialize"
    /\ cphase = "returned"
    /\ attempts = 1
    /\ transport = "closed"
    /\ session = "closed"
    /\ Len(reqLog) = 1

\* C16 (as claimed): the backend clients of the stdio server the subprocess
\* client started use the region and the profile the client displayed.
C16_ServerUsesDisplayedRegion ==
    (ckind = "subprocess" /\ srvState = "running" /\ shown # NoShown) =>
        /\ awsClients.region = shown.region
        /\ awsClients.profile = shown.profile

\* C17 (as claimed): while the agent runs a query, the session of the server
\* each of its tools was discovered from is open.
C17_ToolsHaveOpenSessions ==
    (mop = "query" /\ mstep = "agent") =>
        \A i \in DOMAIN agent.tools : msess[agent.tools[i].server] = "open"

RECURSIVE ListedTools(_)
\* the tool lists of the servers of clients whose discovery went through, concatenated
ListedTools(clients) ==
    IF clients = <<>> THEN <<>>
    ELSE (IF mfound[Head(clients)] = "listed" THEN ServerTools(Head(clients)) ELSE <<>>)
             \o ListedTools(Tail(clients))

\* C18 (as claimed): when discover_tools has returned, all_tools is the
\* concatenation, in mcp_clients order, of the tool lists of the servers
\* whose discovery completed without an exception.
C18_AllToolsIsConcatenation ==
    (mhist.last = "discover_tools" /\ mop = "none") =>
        all_tools = ListedTools(mcp_clients)

\* a server connect_servers keeps: enabled is True or absent, and the config
\* has the entries the constructor call reads
Eligible(srv) ==
    /\ server_configs[srv].enabled \in {"True", "absent"}
    /\ server_configs[srv].complete

\* C19: once connect_servers has returned, mcp_clients holds exactly the
\* servers that are enabled (True or absent) and whose client could be
\* constructed, and none before; a server with enabled = False has no client,
\* is never discovered from, contributes no tool, and no method opens a
\* session to it.
C19_OnlyEnabledServers ==
    /\ (mhist.connect = 0 => mcp_clients = <<>>)
    /\ (mhist.connect > 0 => Range(mcp_clients) = {srv \in Servers : Eligible(srv)})
    /\ \A srv \in Servers :
           server_configs[srv].enabled = "False" =>
               /\ srv \notin Range(mcp_clients)
               /\ mfound[srv] = "none"
               /\ msess[srv] = "closed"
               /\ srv \notin mhist.opened
               /\ \A i \in DOMAIN all_tools : all_tools[i].server # srv

C19_Witness ==
    /\ ckind = "multi"
    /\ server_configs["s1"].enabled = "False"
    /\ server_configs["s2"].enabled = "absent"
    /\ mcp_clients = <<"s2">>
    /\ mfound["s2"] = "listed"
    /\ mop = "query"
    /\ mstep = "agent"

\* C20: create_agent ends in ValueError exactly when all_tools is empty and
\* then leaves agent unset; query on an agent that was not created ends in
\* ValueError and opens no session; so whenever the agent is invoked,
\* connect_servers, a discover_tools that found a tool, create_agent and the
\* invoking query were called in this order.
C20_LifecycleOrdered ==
    /\ (all_tools = <<>> => ~agent.created)
    /\ (mhist.last = "create_agent" =>
           /\ (mlast = "ValueError" <=> all_tools = <<>>)
           /\ (mlast = "ValueError" => ~agent.created)
           /\ (mlast # "ValueError" => agent.created))
    /\ ((mhist.last = "query" /\ ~agent.created) =>
           /\ mlast = "ValueError"
           /\ mop = "none"
           /\ mhist.opened = {})
    /\ (mstep = "agent" => (agent.created /\ mhist.invoked > 0))
    /\ (mhist.invoked > 0 =>
           /\ 0 < mhist.connect
           /\ mhist.connect < mhist.found
           /\ mhist.found < mhist.created
           /\ mhist.created < mhist.invoked)

C20_Witness ==
    /\ ckind = "multi"
    /\ mop = "query"
    /\ mstep = "agent"
    /\ mhist.connect = 1
    /\ mhist.found = 2
    /\ mhist.created = 3
    /\ mhist.invoked = 4

\* C26: after any sequence of connect_servers and discover_tools calls
\* all_tools holds no two tools of the same name, neither from a second
\* discover_tools call nor from two servers exposing a tool of the same name.
C26_ToolNamesUnique ==
    \A i, j \in DOMAIN all_tools :
        all_tools[i].name = all_tools[j].name => i = j

----------------------------------------------------------------------------
(* Properties of the client configured from a file *)

\* the environment variable merge_config_with_env reads for each bedrock key
EnvOverrides == {<<"AWS_REGION", "region_name">>, <<"BEDROCK_MODEL", "model_id">>,
                 <<"AWS_PROFILE", "profile_name">>}

\* C21: merge_config_with_env gives the environment precedence: for AWS_REGION
\* (region_name), BEDROCK_MODEL (model_id) and AWS_PROFILE (profile_name) the
\* merged bedrock value is the environment variable when that is set and not
\* empty and the loaded configuration's value otherwise (a key the loaded
\* configuration lacks stays absent); mcp_servers is returned unchanged.
C21_EnvOverridesConfig ==
    [][(rstep = "loaded" /\ rstep' = "merged") =>
          /\ \A p \in EnvOverrides :
                BedrockOf(the_config)'[p[2]] =
                    IF Truthy(os_environ, p[1]) THEN os_environ[p[1]]
                    ELSE BedrockOf(the_config)[p[2]]
          /\ BedrockOf(the_config)'.temperature = BedrockOf(the_config).temperature
          /\ BedrockOf(the_config)'.max_tokens = BedrockOf(the_config).max_tokens
          /\ the_config'.mcp_servers = the_config.mcp_servers
          /\ ServersOf(the_config)' = ServersOf(the_config)]_vars

\* a file's model was overridden by BEDROCK_MODEL while an empty AWS_REGION
\* left the file's region in place
C21_Witness ==
    /\ rstep = "merged"
    /\ config_file.text = "full"
    /\ os_environ.BEDROCK_MODEL = "m-env"
    /\ os_environ.AWS_REGION = ""
    /\ os_environ.AWS_PROFILE = Unset
    /\ BedrockOf(the_config).model_id = "m-env"
    /\ BedrockOf(the_config).region_name = "ap-south-1"
    /\ BedrockOf(the_config).profile_name = "file-profile"

\* C22: the model id selected by configuration (bedrock.model_id, overridden
\* by BEDROCK_MODEL), which print_config_summary and the final summary print,
\* is the model id the agent's BedrockModel is created with.
C22_AgentUsesConfiguredModel ==
    /\ rstep \in {"summarised", "connected", "discovered", "created", "done"} =>
          printed.summary = BedrockOf(the_config).model_id
    /\ rstep \in {"created", "done"} =>
          /\ multi_agent.model # NoModel
          /\ multi_agent.model.model_id = printed.summary
    /\ rstep = "done" => printed.final = multi_agent.model.model_id

\* the file exists, can be read, is valid JSON and is an object with both keys
HasBothKeys(file) ==
    /\ file.exists
    /\ file.readable
    /\ json_load(file.text).raised = "none"
    /\ json_load(file.text).value.kind = "dict"
    /\ {"mcp_servers", "bedrock"} \subseteq json_load(file.text).value.members

\* C23: load_config always returns a mapping that contains both 'mcp_servers'
\* and 'bedrock': the file's content when the file exists, is valid JSON and
\* has both keys, and the default configuration when the file is missing, is
\* not valid JSON, lacks either key or cannot be read.
C23_LoadConfigReturnsMapping ==
    rstep = "loaded" =>
        /\ the_config.kind = "dict"
        /\ {"mcp_servers", "bedrock"} \subseteq the_config.members
        /\ the_config = IF HasBothKeys(config_file) THEN json_load(config_file.text).value
                        ELSE DefaultConfig

\* C27: the module-level defaults DEFAULT_MCP_SERVERS and
\* DEFAULT_BEDROCK_CONFIG are never modified: after load_config fell back to
\* them and merge_config_with_env applied the environment, a later load_config
\* fallback still yields the original default values.
C27_DefaultsNeverModified ==
    /\ DEFAULT_MCP_SERVERS = InitialServers
    /\ DEFAULT_BEDROCK_CONFIG = InitialBedrock
    /\ (rstep = "loaded" /\ the_config = DefaultConfig) =>
          /\ ServersOf(the_config) = InitialServers
          /\ BedrockOf(the_config) = InitialBedrock

====
